---- MODULE Spec2Model ----
(***************************************************************************)
(* same-same: an in-process vector database.  The model covers the two     *)
(* realisations of the storage contract (the in-memory Storage and the     *)
(* file-backed LocalStorage behind its VectorStorageAdapter), the three    *)
(* query variants and the text-search handler.                             *)
(*                                                                         *)
(* Conventions                                                             *)
(*  - record ids are 1..NumIds, in ascending id order; EmptyID is "".      *)
(*  - time is counted in whole years; ZeroTime is Go's zero time.Time.     *)
(*  - float64 scores are exact rationals [n, d] in lowest terms; the       *)
(*    embeddings are drawn from vectors whose norm is an integer, so       *)
(*    math.Sqrt is exact on every value the model computes.                *)
(*  - a Go map is a function on the set of its keys.                       *)
(***************************************************************************)
EXTENDS Integers, Sequences, FiniteSets, TLC

VARIABLES
    backend,     \* which store the facade bound at process start
    now,         \* the wall clock time.Now() reads
    ms,          \* memory.Storage: [vectors]
    ls,          \* local.LocalStorage: the collection in memory and its files
    lastStored,  \* history: per id, what the last successful Store put there
    ret,         \* the last call made on the facade and what it returned
    mu,          \* the bound store's sync.RWMutex: [writer, readers]
    pc,          \* per goroutine: the call it is in and how far it has got
    ing          \* ingestion.Ingestor: its run, batch, stats and what Run returned

vars == <<backend, now, ms, ls, lastStored, ret, mu, pc, ing>>

(***************************************************************************)
(* Bounds                                                                  *)
(***************************************************************************)
NumIds == 2
MaxClock == 2
MaxK == 2
NumThreads == 2

EmptyID == 0
ZeroTime == 0

Ids == 1..NumIds
Times == ZeroTime..MaxClock
Threads == 1..NumThreads
NoThread == 0

(***************************************************************************)
(* Go maps                                                                 *)
(***************************************************************************)
EmptyMap == << >>
Put(m, k, v) == [x \in (DOMAIN m) \cup {k} |-> IF x = k THEN v ELSE m[x]]
Remove(m, k) == [x \in (DOMAIN m) \ {k} |-> m[x]]

(***************************************************************************)
(* Inputs                                                                  *)
(***************************************************************************)
NilEmbedding == << >>
Embeddings == {<<1, 0>>, <<4, 3>>, <<0, 0>>, <<1, 0, 0>>}
Metadatas ==
    {EmptyMap, [author |-> "Einstein"],
     [author |-> "Newton", published |-> "2002-01-01T00:00:00Z"]}

Vector(id, emb, meta, created, updated) ==
    [ID |-> id, Embedding |-> emb, Metadata |-> meta,
     CreatedAt |-> created, UpdatedAt |-> updated]

\* What a caller may hand to Store: UpdatedAt is overwritten by both stores
\* before anything reads it, so the callers' value is fixed to the zero time.
Vectors(ids, embs, metas, times) ==
    {Vector(id, e, m, c, ZeroTime) : id \in ids, e \in embs, m \in metas, c \in times}

(***************************************************************************)
(* memory.Storage                                                          *)
(***************************************************************************)
\* The record Store leaves in the map (it writes through the caller's pointer).
MemStoredVector(vectors, vector, t) ==
    IF vector.ID \in DOMAIN vectors
    THEN [vector EXCEPT !.UpdatedAt = t]
    ELSE [vector EXCEPT !.CreatedAt = t, !.UpdatedAt = t]

MemStore(s, vector, t) ==
    IF vector.ID = EmptyID
    THEN [ms |-> s, err |-> "empty_id"]
    ELSE [ms |-> [s EXCEPT !.vectors = Put(@, vector.ID, MemStoredVector(@, vector, t))],
          err |-> "nil"]

MemGet(s, id) ==
    IF id \in DOMAIN s.vectors
    THEN [err |-> "nil", vector |-> s.vectors[id]]
    ELSE [err |-> "not_found"]

MemDelete(s, id) ==
    IF id \notin DOMAIN s.vectors
    THEN [ms |-> s, err |-> "not_found"]
    ELSE [ms |-> [s EXCEPT !.vectors = Remove(@, id)], err |-> "nil"]

MemList(s) == {s.vectors[id] : id \in DOMAIN s.vectors}

MemCount(s) == Cardinality(DOMAIN s.vectors)

(***************************************************************************)
(* interface{} operands of the filters and fmt.Sprint on them              *)
(***************************************************************************)
StrVal(s) == [kind |-> "string", str |-> s]
NumVal(n) == [kind |-> "number", num |-> n]
BoolVal(b) == [kind |-> "bool", bool |-> b]
ListVal(l) == [kind |-> "list", list |-> l]
NilVal == [kind |-> "nil"]

Sprint(v) ==
    CASE v.kind = "string" -> v.str
      [] v.kind = "number" -> ToString(v.num)
      [] v.kind = "bool" -> IF v.bool THEN "true" ELSE "false"
      [] v.kind = "nil" -> "<nil>"
      [] OTHER -> "[...]"

(***************************************************************************)
(* local.LocalStorage (one collection) and its VectorStorageAdapter        *)
(***************************************************************************)
NoPath == << >>
getEmbeddingPath(id) == <<"embeddings", id>>

EmbeddingData(vec) == [Vector |-> vec, Path |-> NoPath]

\* encoding/json on a metadata value: what Encode writes and Decode reads
\* back into an interface{} (string, float64, bool, []interface{} or nil).
RECURSIVE JSONValue(_)
JSONValue(v) ==
    CASE v.kind = "string" -> StrVal(v.str)
      [] v.kind = "number" -> NumVal(v.num)
      [] v.kind = "bool" -> BoolVal(v.bool)
      [] v.kind = "list" -> ListVal([i \in DOMAIN v.list |-> JSONValue(v.list[i])])
      [] OTHER -> NilVal

\* A Document written with Encode and read back with Decode: "vector" and
\* "path" are omitted when empty and come back empty.
JSONDocument(doc) ==
    [ID |-> doc.ID,
     CreatedAt |-> doc.CreatedAt,
     UpdatedAt |-> doc.UpdatedAt,
     Version |-> doc.Version,
     Metadata |-> [k \in DOMAIN doc.Metadata |-> JSONValue(doc.Metadata[k])],
     Embedding |-> [Vector |-> IF Len(doc.Embedding.Vector) = 0 THEN NilEmbedding
                               ELSE doc.Embedding.Vector,
                    Path |-> IF doc.Embedding.Path = NoPath THEN NoPath
                             ELSE doc.Embedding.Path]]

\* A Collection (its documents and stats) written and read back.
JSONCollection(c) ==
    [Documents |-> [id \in DOMAIN c.Documents |-> JSONDocument(c.Documents[id])],
     DocumentCount |-> c.DocumentCount]

NewCollection == [Documents |-> EmptyMap, DocumentCount |-> 0]

\* The collection the adapter is bound to.
BoundCollection == "default"

\* ls.Documents is collection.Documents and ls.DocumentCount is
\* collection.Stats.DocumentCount of the bound collection; ls.Others holds
\* the other collections of the schema by name.  docFiles and embFiles are
\* the files under collections/<collection>/ and embeddings/<collection>/,
\* schemaFile is metadata.json and files holds the export files by path.
\* NewLocalStorage creates the schema and the adapter creates the bound
\* collection; both save the schema.
NewLocalStorage ==
    [Documents |-> EmptyMap, DocumentCount |-> 0, Others |-> EmptyMap,
     docFiles |-> EmptyMap, embFiles |-> EmptyMap,
     schemaFile |-> [Documents |-> EmptyMap, DocumentCount |-> 0, Others |-> EmptyMap],
     files |-> EmptyMap]

\* A saveSchema that leaves metadata.json as it is.
saveSchema_Skipped(l) == l

\* saveSchema: metadata.json takes the schema as it is in memory.
saveSchema(l) ==
    [l EXCEPT !.schemaFile =
        [Documents |-> JSONCollection(l).Documents,
         DocumentCount |-> l.DocumentCount,
         Others |-> [name \in DOMAIN l.Others |-> JSONCollection(l.Others[name])]]]

\* loadOrCreateSchema on a base path that holds metadata.json.
loadOrCreateSchema(l) ==
    [l EXCEPT !.Documents = l.schemaFile.Documents,
              !.DocumentCount = l.schemaFile.DocumentCount,
              !.Others = l.schemaFile.Others]

\* The writes of StoreDocument that can fail, in their order.
NoFault == "none"
Faults == {"document", "embedding", "schema"}

\* StoreDocument puts the document in the map and updates the stats, then
\* writes the document file, the embedding file (when there is a vector) and
\* the schema, and returns at the first write that fails (fault names it).
StoreDocument(l, doc, t, fault) ==
    LET stamped == [doc EXCEPT !.CreatedAt = IF @ = ZeroTime THEN t ELSE @,
                               !.UpdatedAt = t,
                               !.Version = @ + 1]
        separate == Len(stamped.Embedding.Vector) > 0
        kept == [stamped EXCEPT !.Embedding.Path = getEmbeddingPath(doc.ID),
                                !.Embedding.Vector = NilEmbedding]
        inMap == [l EXCEPT !.Documents = Put(@, doc.ID, stamped),
                           !.DocumentCount = Cardinality(DOMAIN l.Documents \cup {doc.ID})]
        docSaved == [inMap EXCEPT !.docFiles = Put(@, doc.ID, JSONDocument(stamped))]
        embSaved == IF separate
                    THEN [docSaved EXCEPT !.embFiles = Put(@, doc.ID, stamped.Embedding),
                                          !.Documents[doc.ID] = kept]
                    ELSE docSaved
    IN  IF fault = "document" THEN [ls |-> inMap, err |-> "write"]
        ELSE IF fault = "embedding" /\ separate THEN [ls |-> docSaved, err |-> "write"]
        ELSE IF fault = "schema" THEN [ls |-> embSaved, err |-> "write"]
        ELSE [ls |-> saveSchema(embSaved), err |-> "nil"]

loadEmbedding(l, id) ==
    IF id \in DOMAIN l.embFiles
    THEN [err |-> "nil", embedding |-> l.embFiles[id]]
    ELSE [err |-> "not_found"]

\* A document with its side embedding loaded, when it has one that loads.
WithLoadedEmbedding(l, doc) ==
    IF doc.Embedding.Path # NoPath /\ loadEmbedding(l, doc.ID).err = "nil"
    THEN [doc EXCEPT !.Embedding = loadEmbedding(l, doc.ID).embedding]
    ELSE doc

loadDocument(l, id) ==
    IF id \in DOMAIN l.docFiles
    THEN [ls |-> l, err |-> "nil", doc |-> WithLoadedEmbedding(l, l.docFiles[id])]
    ELSE [ls |-> l, err |-> "not_found"]

\* GetDocument writes the loaded embedding into the document it found in memory.
GetDocument(l, id) ==
    IF id \in DOMAIN l.Documents
    THEN LET doc == WithLoadedEmbedding(l, l.Documents[id])
         IN  [ls |-> [l EXCEPT !.Documents[id] = doc], err |-> "nil", doc |-> doc]
    ELSE loadDocument(l, id)

\* A DeleteDocument that leaves the document's file on disk.
DeleteDocument_KeepsFile(l, id) ==
    LET docs == Remove(l.Documents, id)
    IN  [ls |-> saveSchema([l EXCEPT !.Documents = docs,
                                     !.DocumentCount = Cardinality(DOMAIN docs),
                                     !.embFiles = Remove(@, id)]),
         err |-> "nil"]

\* DeleteDocument does not look whether the id is in the map, removes the
\* files without looking at the outcome, and saves the schema.
DeleteDocument(l, id) ==
    LET docs == Remove(l.Documents, id)
    IN  [ls |-> saveSchema([l EXCEPT !.Documents = docs,
                                     !.DocumentCount = Cardinality(DOMAIN docs),
                                     !.docFiles = Remove(@, id),
                                     !.embFiles = Remove(@, id)]),
         err |-> "nil"]

\* Close saves the schema.
Close(l) == saveSchema(l)

\* matchesFilters: every filter key is in the metadata with an equal value.
matchesFilters(metadata, filters) ==
    \A key \in DOMAIN filters :
        key \in DOMAIN metadata /\ metadata[key] = filters[key]

\* QueryByMetadata on the bound collection: the documents as they are in memory.
QueryByMetadata(l, filters) ==
    {l.Documents[id] : id \in {i \in DOMAIN l.Documents :
                                  matchesFilters(l.Documents[i].Metadata, filters)}}

\* ls.schema.Collections, by name.
Collections(l) ==
    (BoundCollection :> [Documents |-> l.Documents, DocumentCount |-> l.DocumentCount])
        @@ l.Others

\* An Export that writes the collection without its documents.
Export_NoDocuments(l, collectionName, outputPath) ==
    IF collectionName \notin DOMAIN Collections(l)
    THEN [ls |-> l, err |-> "not_found"]
    ELSE [ls |-> [l EXCEPT !.files = Put(@, outputPath, NewCollection)], err |-> "nil"]

\* Export encodes the collection into the file at outputPath.
Export(l, collectionName, outputPath) ==
    IF collectionName \notin DOMAIN Collections(l)
    THEN [ls |-> l, err |-> "not_found"]
    ELSE [ls |-> [l EXCEPT !.files =
                     Put(@, outputPath, JSONCollection(Collections(l)[collectionName]))],
          err |-> "nil"]

\* Import decodes the file into a collection, puts it in the schema under
\* collectionName and saves the schema; no document or embedding file is written.
Import(l, collectionName, inputPath) ==
    IF inputPath \notin DOMAIN l.files
    THEN [ls |-> l, err |-> "open"]
    ELSE LET collection == l.files[inputPath]
         IN  [ls |-> saveSchema(
                         IF collectionName = BoundCollection
                         THEN [l EXCEPT !.Documents = collection.Documents,
                                        !.DocumentCount = collection.DocumentCount]
                         ELSE [l EXCEPT !.Others = Put(@, collectionName, collection)]),
              err |-> "nil"]

\* map[string]string <-> map[string]interface{}: values are boxed on the way
\* in and printed with fmt.Sprint on the way out.
convertMetadataToInterface(metadata) ==
    [k \in DOMAIN metadata |-> StrVal(metadata[k])]

documentToVector(doc) ==
    Vector(doc.ID, doc.Embedding.Vector,
           [k \in DOMAIN doc.Metadata |-> Sprint(doc.Metadata[k])],
           doc.CreatedAt, doc.UpdatedAt)

\* The Document that Store builds from the vector.
AdapterDocument(vector) ==
    [ID |-> vector.ID,
     CreatedAt |-> vector.CreatedAt,
     UpdatedAt |-> vector.UpdatedAt,
     Version |-> 0,
     Metadata |-> convertMetadataToInterface(vector.Metadata),
     Embedding |-> EmbeddingData(vector.Embedding)]

AdapterStore(l, vector, t) == StoreDocument(l, AdapterDocument(vector), t, NoFault)

AdapterGet(l, id) ==
    LET got == GetDocument(l, id)
    IN  IF got.err = "nil"
        THEN [ls |-> got.ls, err |-> "nil", vector |-> documentToVector(got.doc)]
        ELSE [ls |-> got.ls, err |-> got.err]

AdapterDelete(l, id) == DeleteDocument(l, id)

AdapterList(l) == {documentToVector(l.Documents[id]) : id \in DOMAIN l.Documents}

AdapterCount(l) == l.DocumentCount

(***************************************************************************)
(* local.MigrationManager                                                  *)
(***************************************************************************)
\* The loop `for _, vector := range vectors { adapter.Store(vector) }`.
RECURSIVE AdapterStoreAll(_, _, _)
AdapterStoreAll(l, vectors, t) ==
    IF vectors = {} THEN l
    ELSE LET vector == CHOOSE v \in vectors : TRUE
         IN  AdapterStoreAll(AdapterStore(l, vector, t).ls, vectors \ {vector}, t)

\* The loop `for _, vector := range vectors { memStorage.Store(vector) }`.
RECURSIVE MemStoreAll(_, _, _)
MemStoreAll(s, vectors, t) ==
    IF vectors = {} THEN s
    ELSE LET vector == CHOOSE v \in vectors : TRUE
         IN  MemStoreAll(MemStore(s, vector, t).ms, vectors \ {vector}, t)

\* MigrateMemoryToLocal: an adapter is opened on the path, takes every vector
\* the memory store lists, and is closed.  l is what the path holds.
MigrateMemoryToLocal(memStorage, l, t) ==
    Close(AdapterStoreAll(loadOrCreateSchema(l), MemList(memStorage), t))

\* MigrateLocalToMemory: an adapter is opened on the path and the memory
\* store takes every vector it lists.
MigrateLocalToMemory(l, memStorage, t) ==
    MemStoreAll(memStorage, AdapterList(loadOrCreateSchema(l)), t)

(***************************************************************************)
(* The facade: one store is bound at process start (NewStorageFromEnv)     *)
(***************************************************************************)
\* History of the contract: what the last successful Store put under each id,
\* or that a successful Delete has taken it away since.
Stored(vector) == [Embedding |-> vector.Embedding, Metadata |-> vector.Metadata]
Deleted == [deleted |-> TRUE]
Present(history, id) == id \in DOMAIN history /\ history[id] # Deleted

Unlocked == [writer |-> NoThread, readers |-> {}]
Idle == [at |-> "idle"]

\* NewStorageFromEnv binds one of the two stores.
\* No ingestion run has been started.
NoIngestor == [pc |-> "idle"]

Init ==
    /\ backend \in {"memory", "local"}
    /\ now = 1
    /\ ms = [vectors |-> EmptyMap]
    /\ ls = NewLocalStorage
    /\ lastStored = EmptyMap
    /\ ret = [op |-> "none"]
    /\ mu = Unlocked
    /\ pc = [t \in Threads |-> Idle]
    /\ ing = NoIngestor

Tick ==
    /\ now < MaxClock
    /\ now' = now + 1
    /\ UNCHANGED <<ing, mu, pc, backend, ms, ls, lastStored, ret>>

Store(vector) ==
    /\ IF backend = "memory"
       THEN LET r == MemStore(ms, vector, now)
            IN  /\ ms' = r.ms
                /\ ls' = ls
                /\ ret' = [op |-> "Store", id |-> vector.ID, err |-> r.err]
                /\ lastStored' = IF r.err = "nil"
                                 THEN Put(lastStored, vector.ID, Stored(vector))
                                 ELSE lastStored
       ELSE LET r == AdapterStore(ls, vector, now)
            IN  /\ vector.ID # EmptyID
                /\ ls' = r.ls
                /\ ms' = ms
                /\ ret' = [op |-> "Store", id |-> vector.ID, err |-> r.err]
                /\ lastStored' = IF r.err = "nil"
                                 THEN Put(lastStored, vector.ID, Stored(vector))
                                 ELSE lastStored
    /\ UNCHANGED <<ing, mu, pc, backend, now>>

Delete(id) ==
    /\ LET r == IF backend = "memory" THEN MemDelete(ms, id) ELSE [ms |-> ms]
           q == IF backend = "memory" THEN [ls |-> ls] ELSE AdapterDelete(ls, id)
           err == IF backend = "memory" THEN r.err ELSE q.err
       IN  /\ ms' = r.ms
           /\ ls' = q.ls
           /\ ret' = [op |-> "Delete", id |-> id, err |-> err,
                      existed |-> Present(lastStored, id)]
           /\ lastStored' = IF err = "nil" THEN Put(lastStored, id, Deleted) ELSE lastStored
    /\ UNCHANGED <<ing, mu, pc, backend, now>>

Get(id) ==
    /\ IF backend = "memory"
       THEN /\ ret' = [op |-> "Get", id |-> id] @@ MemGet(ms, id)
            /\ ls' = ls
       ELSE LET r == AdapterGet(ls, id)
            IN  /\ ret' = [op |-> "Get", id |-> id, err |-> r.err]
                          @@ (IF r.err = "nil" THEN [vector |-> r.vector] ELSE EmptyMap)
                /\ ls' = r.ls
    /\ UNCHANGED <<ing, mu, pc, backend, now, ms, lastStored>>

List ==
    /\ ret' = [op |-> "List",
               vectors |-> IF backend = "memory" THEN MemList(ms) ELSE AdapterList(ls)]
    /\ UNCHANGED <<ing, mu, pc, backend, now, ms, ls, lastStored>>

Count ==
    /\ ret' = [op |-> "Count",
               count |-> IF backend = "memory" THEN MemCount(ms) ELSE AdapterCount(ls)]
    /\ UNCHANGED <<ing, mu, pc, backend, now, ms, ls, lastStored>>


(***************************************************************************)
(* float64 arithmetic on the values the model computes: exact rationals    *)
(***************************************************************************)
RECURSIVE GCD(_, _)
GCD(a, b) == IF b = 0 THEN a ELSE GCD(b, a % b)

Abs(x) == IF x < 0 THEN 0 - x ELSE x

Rat(n, d) ==
    LET g == GCD(Abs(n), Abs(d))
        s == IF d < 0 THEN 0 - 1 ELSE 1
    IN  [n |-> s * (n \div g), d |-> s * (d \div g)]

Zero == Rat(0, 1)
One == Rat(1, 1)
RatAdd(a, b) == Rat(a.n * b.d + b.n * a.d, a.d * b.d)
RatMul(a, b) == Rat(a.n * b.n, a.d * b.d)
RatGreater(a, b) == a.n * b.d > b.n * a.d

\* math.Sqrt, on the perfect squares the embeddings of the model produce.
Sqrt(n) == CHOOSE r \in 0..n : r * r = n

RECURSIVE Dot(_, _)
Dot(a, b) == IF a = << >> THEN 0 ELSE Head(a) * Head(b) + Dot(Tail(a), Tail(b))

\* A similarity that leaves the dot product unnormalised.
CosineSimilarity_DotOnly(v, other) ==
    IF Len(v) # Len(other) THEN Zero ELSE Rat(Dot(v, other), 1)

CosineSimilarity(v, other) ==
    IF Len(v) # Len(other)
    THEN Zero
    ELSE LET dotProduct == Dot(v, other)
             normA == Dot(v, v)
             normB == Dot(other, other)
         IN  IF normA = 0 \/ normB = 0
             THEN Zero
             ELSE Rat(dotProduct, Sqrt(normA) * Sqrt(normB))

(***************************************************************************)
(* models.FilterEvaluator (the operators the filters of the model use)     *)
(***************************************************************************)
compareIn(value, expected) ==
    /\ expected.kind = "list"
    /\ \E i \in DOMAIN expected.list : value = Sprint(expected.list[i])

\* The bytes of the strings the ordered and substring operators are given.
Bytes ==
    ("" :> << >>)
    @@ ("9" :> <<57>>)
    @@ ("1900" :> <<49, 57, 48, 48>>)
    @@ ("1925" :> <<49, 57, 50, 53>>)
    @@ ("Einstein" :> <<69, 105, 110, 115, 116, 101, 105, 110>>)
    @@ ("einstein" :> <<101, 105, 110, 115, 116, 101, 105, 110>>)
    @@ ("STEIN" :> <<83, 84, 69, 73, 78>>)
    @@ ("true" :> <<116, 114, 117, 101>>)
    @@ ("false" :> <<102, 97, 108, 115, 101>>)
    @@ ("<nil>" :> <<60, 110, 105, 108, 62>>)

\* strings.ToLower on ASCII text
ToLower(b) == [i \in DOMAIN b |-> IF b[i] \in 65..90 THEN b[i] + 32 ELSE b[i]]

\* strings.Contains
Contains(b, substr) ==
    \E i \in 0..(Len(b) - Len(substr)) : SubSeq(b, i + 1, i + Len(substr)) = substr

\* Go's < on strings: byte by byte, a proper prefix first.
RECURSIVE StringLess(_, _)
StringLess(a, b) ==
    IF b = << >> THEN FALSE
    ELSE IF a = << >> THEN TRUE
    ELSE IF Head(a) # Head(b) THEN Head(a) < Head(b)
    ELSE StringLess(Tail(a), Tail(b))

\* fmt.Sscanf(s, "%f", &f) on text without sign, point or exponent: the
\* leading digits are the number, and there must be one.
RECURSIVE ScanDigits(_, _)
ScanDigits(b, f) ==
    IF b = << >> \/ Head(b) \notin 48..57 THEN f
    ELSE ScanDigits(Tail(b), 10 * f + (Head(b) - 48))

toFloat64(val) ==
    CASE val.kind = "number" -> [err |-> "nil", f |-> val.num]
      [] val.kind = "string" ->
            IF Bytes[val.str] # << >> /\ Head(Bytes[val.str]) \in 48..57
            THEN [err |-> "nil", f |-> ScanDigits(Bytes[val.str], 0)]
            ELSE [err |-> "scan", f |-> 0]
      [] OTHER -> [err |-> "cannot convert to float64", f |-> 0]

compareLess(value, expected, orEqual) ==
    LET val == toFloat64(StrVal(value))
        exp == toFloat64(expected)
    IN  IF val.err = "nil" /\ exp.err = "nil"
        THEN IF orEqual THEN val.f <= exp.f ELSE val.f < exp.f
        ELSE IF orEqual
        THEN value = Sprint(expected) \/ StringLess(Bytes[value], Bytes[Sprint(expected)])
        ELSE StringLess(Bytes[value], Bytes[Sprint(expected)])

compareGreater(value, expected, orEqual) ==
    LET val == toFloat64(StrVal(value))
        exp == toFloat64(expected)
    IN  IF val.err = "nil" /\ exp.err = "nil"
        THEN IF orEqual THEN val.f >= exp.f ELSE val.f > exp.f
        ELSE IF orEqual
        THEN value = Sprint(expected) \/ StringLess(Bytes[Sprint(expected)], Bytes[value])
        ELSE StringLess(Bytes[Sprint(expected)], Bytes[value])

compareBetween(value, expected) ==
    /\ expected.kind = "list"
    /\ Len(expected.list) = 2
    /\ toFloat64(StrVal(value)).err = "nil"
    /\ toFloat64(expected.list[1]).err = "nil"
    /\ toFloat64(expected.list[2]).err = "nil"
    /\ toFloat64(StrVal(value)).f >= toFloat64(expected.list[1]).f
    /\ toFloat64(StrVal(value)).f <= toFloat64(expected.list[2]).f

\* An evaluator whose value-reading operators take an absent field for "".
evaluateOperator_AbsentAsEmpty(value, exists, op, expectedVal) ==
    CASE op = "eq" -> value = Sprint(expectedVal)
      [] op = "neq" -> value # Sprint(expectedVal)
      [] op = "lt" -> compareLess(value, expectedVal, FALSE)
      [] op = "lte" -> compareLess(value, expectedVal, TRUE)
      [] op = "gt" -> compareGreater(value, expectedVal, FALSE)
      [] op = "gte" -> compareGreater(value, expectedVal, TRUE)
      [] op = "between" -> compareBetween(value, expectedVal)
      [] op = "contains" ->
            Contains(ToLower(Bytes[value]), ToLower(Bytes[Sprint(expectedVal)]))
      [] op = "in" -> compareIn(value, expectedVal)
      [] op = "exists" -> expectedVal.kind = "bool" /\ exists = expectedVal.bool
      [] OTHER -> FALSE

\* One operator of a field's expression against the field's value.
evaluateOperator(value, exists, op, expectedVal) ==
    CASE op = "eq" -> exists /\ value = Sprint(expectedVal)
      [] op = "neq" -> exists /\ value # Sprint(expectedVal)
      [] op = "lt" -> exists /\ compareLess(value, expectedVal, FALSE)
      [] op = "lte" -> exists /\ compareLess(value, expectedVal, TRUE)
      [] op = "gt" -> exists /\ compareGreater(value, expectedVal, FALSE)
      [] op = "gte" -> exists /\ compareGreater(value, expectedVal, TRUE)
      [] op = "between" -> exists /\ compareBetween(value, expectedVal)
      [] op = "contains" ->
            exists /\ Contains(ToLower(Bytes[value]), ToLower(Bytes[Sprint(expectedVal)]))
      [] op = "in" -> exists /\ compareIn(value, expectedVal)
      [] op = "exists" -> expectedVal.kind = "bool" /\ exists = expectedVal.bool
      [] OTHER -> FALSE

evaluateExpression(value, exists, expr) ==
    \A op \in DOMAIN expr : evaluateOperator(value, exists, op, expr[op])

Evaluate(metadata, filters) ==
    \A field \in DOMAIN filters :
        LET exists == field \in DOMAIN metadata
            value == IF exists THEN metadata[field] ELSE ""
        IN  evaluateExpression(value, exists, filters[field])

\* The orders in which a range statement can visit the keys of a map.
RangeOrders(keys) ==
    {order \in [1..Cardinality(keys) -> keys] :
        \A i, j \in DOMAIN order : order[i] = order[j] => i = j}

\* evaluateExpression as it runs: the operators in the order the range visits
\* them, returning false at the first that fails.
RECURSIVE evaluateExpressionRange(_, _, _, _)
evaluateExpressionRange(value, exists, expr, ops) ==
    IF ops = << >> THEN TRUE
    ELSE IF ~evaluateOperator(value, exists, Head(ops), expr[Head(ops)]) THEN FALSE
    ELSE evaluateExpressionRange(value, exists, expr, Tail(ops))

\* Evaluate as it runs: fields visits DOMAIN filters, ops[field] the operators
\* of the field's expression.
RECURSIVE EvaluateLoop(_, _, _, _)
EvaluateLoop(metadata, filters, fields, ops) ==
    IF fields = << >> THEN TRUE
    ELSE LET field == Head(fields)
             exists == field \in DOMAIN metadata
             value == IF exists THEN metadata[field] ELSE ""
         IN  IF ~evaluateExpressionRange(value, exists, filters[field], ops[field])
             THEN FALSE
             ELSE EvaluateLoop(metadata, filters, Tail(fields), ops)

EvaluateRange_FirstField(metadata, filters, fields, ops) ==
    IF fields = << >> THEN TRUE
    ELSE EvaluateLoop(metadata, filters, <<Head(fields)>>, ops)

EvaluateRange(metadata, filters, fields, ops) ==
    IF Cardinality(DOMAIN filters) = 0 THEN TRUE
    ELSE EvaluateLoop(metadata, filters, fields, ops)

(***************************************************************************)
(* matchesAdvancedFilters: the []MetadataFilter form that Search takes     *)
(***************************************************************************)
\* fmt.Sscanf(s, "%f", &f) on the strings of the model: the numerals scan, the
\* other strings do not.
Numerals == ("1687" :> 1687) @@ ("1925" :> 1925)
Sscanf(s) == IF s \in DOMAIN Numerals THEN [err |-> "nil", f |-> Numerals[s]]
             ELSE [err |-> "input does not match format", f |-> 0]

compareNumeric(a, b, op) ==
    LET af == Sscanf(a)
        bf == CASE b.kind = "number" -> [err |-> "nil", f |-> b.num]
                [] b.kind = "string" -> Sscanf(b.str)
                [] OTHER -> [err |-> "type", f |-> 0]
    IN  /\ af.err = "nil"
        /\ bf.err = "nil"
        /\ CASE op = ">=" -> af.f >= bf.f
             [] op = "<=" -> af.f <= bf.f
             [] op = ">" -> af.f > bf.f
             [] op = "<" -> af.f < bf.f
             [] OTHER -> FALSE

MetadataFilter(field, operator, value) ==
    [Field |-> field, Operator |-> operator, Value |-> value]

matchesFilter(vectorMeta, filter) ==
    /\ filter.Field \in DOMAIN vectorMeta
    /\ LET val == vectorMeta[filter.Field]
       IN  CASE filter.Operator = "=" -> val = Sprint(filter.Value)
             [] filter.Operator = "in" ->
                    /\ filter.Value.kind = "list"
                    /\ \E i \in DOMAIN filter.Value.list : val = Sprint(filter.Value.list[i])
             [] filter.Operator = "not_in" ->
                    /\ filter.Value.kind = "list"
                    /\ \A i \in DOMAIN filter.Value.list : val # Sprint(filter.Value.list[i])
             [] filter.Operator \in {">=", "<=", ">", "<"} ->
                    compareNumeric(val, filter.Value, filter.Operator)
             [] OTHER -> FALSE

matchesAdvancedFilters(vectorMeta, filters) ==
    \A i \in DOMAIN filters : matchesFilter(vectorMeta, filters[i])

(***************************************************************************)
(* Ranking: sort.Slice / the adapter's exchange sort, then truncation      *)
(***************************************************************************)
\* Go ranges over a map in an order of its own and both sorts compare scores
\* only, so a sort may leave the candidates in any order in which no score is
\* followed by a greater one.
\* The orders are built front to back: any candidate no other candidate
\* outscores, then any such order of the rest.
RECURSIVE SortedByScore(_)
SortedByScore(results) ==
    IF results = {}
    THEN {<< >>}
    ELSE UNION {{<<m>> \o s : s \in SortedByScore(results \ {m})} :
                   m \in {r \in results :
                            \A o \in results : ~RatGreater(o.Score, r.Score)}}

\* A truncation that returns the results whole.
Truncate_Off(results, topK) == results

Truncate(results, topK) ==
    IF topK > 0 /\ Len(results) > topK THEN SubSeq(results, 1, topK) ELSE results

SearchResult(vector, score) == [Vector |-> vector, Score |-> score]

\* Requests.  Options is nil (<< >>) or holds one HybridWeight.
NoOptions == << >>
HybridWeight(v, m) == <<[Vector |-> v, Metadata |-> m]>>

(***************************************************************************)
(* memory.Storage: the three query variants                                *)
(***************************************************************************)
\* Search(req *SearchByEmbbedingRequest): req.Options is not read.
\* Candidates of Search without the comparison of embedding lengths.
MemSearchCandidates_AnyLength(s, req) ==
    {SearchResult(s.vectors[id], CosineSimilarity(req.Embedding, s.vectors[id].Embedding)) :
        id \in {i \in DOMAIN s.vectors :
                  Len(req.Filters) > 0
                      => matchesAdvancedFilters(s.vectors[i].Metadata, req.Filters)}}

MemSearchCandidates(s, req) ==
    {SearchResult(s.vectors[id], CosineSimilarity(req.Embedding, s.vectors[id].Embedding)) :
        id \in {i \in DOMAIN s.vectors :
                  /\ Len(s.vectors[i].Embedding) = Len(req.Embedding)
                  /\ (Len(req.Filters) > 0
                        => matchesAdvancedFilters(s.vectors[i].Metadata, req.Filters))}}

MemSearch(s, req) ==
    {Truncate(r, req.TopK) : r \in SortedByScore(MemSearchCandidates(s, req))}

calculateMetadataScore(metadata, filters) ==
    IF DOMAIN filters = {} THEN One
    ELSE IF Evaluate(metadata, filters) THEN One ELSE Zero

\* A scoring that never applies the hybrid weights.
MemAdvancedScore_Unweighted(vector, req, queryEmbedding) ==
    CosineSimilarity(queryEmbedding, vector.Embedding)

\* The final score AdvancedSearch gives a candidate that reached the scoring.
MemAdvancedScore(vector, req, queryEmbedding) ==
    LET vectorScore == CosineSimilarity(queryEmbedding, vector.Embedding)
    IN  IF req.Options # NoOptions
        THEN LET hw == req.Options[1]
                 metadataScore == calculateMetadataScore(vector.Metadata, req.Filters)
             IN  RatAdd(RatMul(hw.Vector, vectorScore), RatMul(hw.Metadata, metadataScore))
        ELSE vectorScore

MemAdvancedCandidates(s, req, queryEmbedding) ==
    {SearchResult(s.vectors[id], MemAdvancedScore(s.vectors[id], req, queryEmbedding)) :
        id \in {i \in DOMAIN s.vectors :
                  /\ Len(s.vectors[i].Embedding) = Len(queryEmbedding)
                  /\ Evaluate(s.vectors[i].Metadata, req.Filters)}}

MemAdvancedSearch(s, req, queryEmbedding) ==
    {Truncate(r, req.TopK) : r \in SortedByScore(MemAdvancedCandidates(s, req, queryEmbedding))}

(***************************************************************************)
(* models.TemporalScorer                                                   *)
(***************************************************************************)
\* GetLambda, in hundredths per year.
GetLambda(decay) ==
    CASE decay = "strong" -> 50
      [] decay = "medium" -> 10
      [] decay = "weak" -> 1
      [] OTHER -> 0

\* math.Exp(-h/100) rounded to four decimals, in ten-thousandths, at the
\* exponents lambda * deltaT the model reaches (deltaT in 0..7 years).
ExpNeg ==
    (0 :> 10000) @@ (1 :> 9900) @@ (2 :> 9802) @@ (3 :> 9704) @@ (4 :> 9608)
    @@ (5 :> 9512) @@ (6 :> 9418) @@ (7 :> 9324)
    @@ (10 :> 9048) @@ (20 :> 8187) @@ (30 :> 7408) @@ (40 :> 6703)
    @@ (50 :> 6065) @@ (60 :> 5488) @@ (70 :> 4966)
    @@ (100 :> 3679) @@ (150 :> 2231) @@ (200 :> 1353) @@ (250 :> 821)
    @@ (300 :> 498) @@ (350 :> 302)

DeltaT(referenceTime, documentTime) ==
    IF referenceTime - documentTime < 0 THEN 0 ELSE referenceTime - documentTime

GetDecayFactor(config, documentTime) ==
    IF config.Lambda = 0
    THEN One
    ELSE Rat(ExpNeg[config.Lambda * DeltaT(config.ReferenceTime, documentTime)], 10000)

\* ApplyDecay without the exponential: the cosine similarity is returned as is.
ApplyDecay_Undecayed(config, cosineSimilarity, documentTime) == cosineSimilarity

ApplyDecay(config, cosineSimilarity, documentTime) ==
    IF config.Lambda = 0
    THEN cosineSimilarity
    ELSE RatMul(cosineSimilarity,
                Rat(ExpNeg[config.Lambda * DeltaT(config.ReferenceTime, documentTime)], 10000))

\* ReferenceTime is nil (<< >>) or holds one time.
GetTemporalConfig(req, t) ==
    [Lambda |-> GetLambda(req.TemporalDecay),
     TimeField |-> req.TimeField,
     ReferenceTime |-> IF req.ReferenceTime # << >> THEN req.ReferenceTime[1] ELSE t]

\* time.Parse(time.RFC3339, s) on the strings of the model.
Timestamps == ("2001-01-01T00:00:00Z" :> 1) @@ ("2002-01-01T00:00:00Z" :> 2)
ParseTime(s) == IF s \in DOMAIN Timestamps THEN [err |-> "nil", t |-> Timestamps[s]]
                ELSE [err |-> "parse", t |-> ZeroTime]

getDocumentTime(vector, timeField, t) ==
    IF timeField \in DOMAIN vector.Metadata /\ ParseTime(vector.Metadata[timeField]).err = "nil"
    THEN ParseTime(vector.Metadata[timeField]).t
    ELSE IF vector.CreatedAt # ZeroTime THEN vector.CreatedAt
    ELSE IF vector.UpdatedAt # ZeroTime THEN vector.UpdatedAt
    ELSE t

TemporalSearchResult(vector, config, queryEmbedding, t) ==
    LET baseScore == CosineSimilarity(queryEmbedding, vector.Embedding)
        documentTime == getDocumentTime(vector, config.TimeField, t)
    IN  [Vector |-> vector,
         Score |-> ApplyDecay(config, baseScore, documentTime),
         BaseScore |-> baseScore,
         DecayFactor |-> GetDecayFactor(config, documentTime),
         DocumentTime |-> documentTime]

MemTemporalCandidates(s, req, queryEmbedding, t) ==
    {TemporalSearchResult(s.vectors[id], GetTemporalConfig(req, t), queryEmbedding, t) :
        id \in {i \in DOMAIN s.vectors :
                  /\ Len(s.vectors[i].Embedding) = Len(queryEmbedding)
                  /\ (DOMAIN req.Filters # {}
                        => Evaluate(s.vectors[i].Metadata, req.Filters))}}

MemTemporalSearch(s, req, queryEmbedding, t) ==
    {Truncate(r, req.TopK) :
        r \in SortedByScore(MemTemporalCandidates(s, req, queryEmbedding, t))}

(***************************************************************************)
(* VectorStorageAdapter: the three query variants                          *)
(***************************************************************************)
\* Search and AdvancedSearch load the side embedding of every document whose
\* vector is not in memory, and keep it in the document.
AdapterLoadAll(l) ==
    [l EXCEPT !.Documents =
        [id \in DOMAIN l.Documents |->
            LET doc == l.Documents[id]
            IN  IF Len(doc.Embedding.Vector) = 0 /\ doc.Embedding.Path # NoPath
                   /\ loadEmbedding(l, id).err = "nil"
                THEN [doc EXCEPT !.Embedding = loadEmbedding(l, id).embedding]
                ELSE doc]]

\* Documents whose embedding file does not load are passed over.
AdapterLoaded(l) ==
    {id \in DOMAIN l.Documents :
        ~(/\ Len(l.Documents[id].Embedding.Vector) = 0
          /\ l.Documents[id].Embedding.Path # NoPath
          /\ loadEmbedding(l, id).err # "nil")}

\* Search: req.Filters is not read; the metadata score of a hybrid is 1.
AdapterSearchScore(vector, req) ==
    LET vectorScore == CosineSimilarity(req.Embedding, vector.Embedding)
    IN  IF req.Options # NoOptions
        THEN LET hw == req.Options[1]
             IN  RatAdd(RatMul(hw.Vector, vectorScore), RatMul(hw.Metadata, One))
        ELSE vectorScore

AdapterSearchCandidates(l, req) ==
    LET loaded == AdapterLoadAll(l)
    IN  {SearchResult(documentToVector(loaded.Documents[id]),
                      AdapterSearchScore(documentToVector(loaded.Documents[id]), req)) :
            id \in {i \in AdapterLoaded(l) :
                      Len(loaded.Documents[i].Embedding.Vector) = Len(req.Embedding)}}

AdapterSearch(l, req) ==
    {[ls |-> AdapterLoadAll(l), results |-> Truncate(r, req.TopK)] :
        r \in SortedByScore(AdapterSearchCandidates(l, req))}

\* AdvancedSearch turns each field's expression into a MetadataFilter whose
\* operator is the expression's "operator" entry (when that is a string) and
\* whose value is unset.
ConvertFilters(filters) ==
    {MetadataFilter(key,
                    IF "operator" \in DOMAIN filters[key]
                       /\ filters[key]["operator"].kind = "string"
                    THEN filters[key]["operator"].str
                    ELSE "",
                    NilVal) : key \in DOMAIN filters}

DefaultTopK == 10

\* search.FilterAndScoreVectors, over the converted filters (a set: each must match).
FilterAndScoreCandidates(vectors, embedding, filters) ==
    {SearchResult(v, CosineSimilarity(embedding, v.Embedding)) :
        v \in {w \in vectors :
                 /\ Len(w.Embedding) = Len(embedding)
                 /\ \A f \in filters : matchesFilter(w.Metadata, f)}}

FilterAndScoreVectors(vectors, embedding, topK, filters) ==
    {Truncate(r, IF topK <= 0 THEN DefaultTopK ELSE topK) :
        r \in SortedByScore(FilterAndScoreCandidates(vectors, embedding, filters))}

AdapterAdvancedSearch(l, req, queryEmbedding) ==
    LET loaded == AdapterLoadAll(l)
        vectors == {documentToVector(loaded.Documents[id]) : id \in AdapterLoaded(l)}
    IN  {[ls |-> loaded, results |-> r] :
            r \in FilterAndScoreVectors(vectors, queryEmbedding, req.TopK,
                                        ConvertFilters(req.Filters))}

\* TemporalSearch is a stub: it returns nil, nil.
AdapterTemporalSearch(l, req, queryEmbedding) == {[ls |-> l, results |-> << >>]}

(***************************************************************************)
(* The facade: the query variants                                          *)
(***************************************************************************)
SearchByEmbbedingRequest(emb, topK, filters, options) ==
    [Embedding |-> emb, TopK |-> topK, Filters |-> filters, Options |-> options]

AdvancedSearchRequest(topK, filters, options) ==
    [TopK |-> topK, Filters |-> filters, Options |-> options]

TemporalSearchRequest(topK, filters, decay, referenceTime, timeField, options) ==
    [TopK |-> topK, Filters |-> filters, TemporalDecay |-> decay,
     ReferenceTime |-> referenceTime, TimeField |-> timeField, Options |-> options]

Search(req) ==
    /\ IF backend = "memory"
       THEN \E r \in MemSearch(ms, req) :
                /\ ret' = [op |-> "Search", req |-> req, results |-> r]
                /\ ls' = ls
       ELSE \E r \in AdapterSearch(ls, req) :
                /\ ret' = [op |-> "Search", req |-> req, results |-> r.results]
                /\ ls' = r.ls
    /\ UNCHANGED <<ing, mu, pc, backend, now, ms, lastStored>>

AdvancedSearch(req, queryEmbedding) ==
    /\ IF backend = "memory"
       THEN \E r \in MemAdvancedSearch(ms, req, queryEmbedding) :
                /\ ret' = [op |-> "AdvancedSearch", req |-> req,
                           queryEmbedding |-> queryEmbedding, results |-> r]
                /\ ls' = ls
       ELSE \E r \in AdapterAdvancedSearch(ls, req, queryEmbedding) :
                /\ ret' = [op |-> "AdvancedSearch", req |-> req,
                           queryEmbedding |-> queryEmbedding, results |-> r.results]
                /\ ls' = r.ls
    /\ UNCHANGED <<ing, mu, pc, backend, now, ms, lastStored>>

TemporalSearch(req, queryEmbedding) ==
    /\ IF backend = "memory"
       THEN \E r \in MemTemporalSearch(ms, req, queryEmbedding, now) :
                /\ ret' = [op |-> "TemporalSearch", req |-> req,
                           queryEmbedding |-> queryEmbedding, results |-> r]
                /\ ls' = ls
       ELSE \E r \in AdapterTemporalSearch(ls, req, queryEmbedding) :
                /\ ret' = [op |-> "TemporalSearch", req |-> req,
                           queryEmbedding |-> queryEmbedding, results |-> r.results]
                /\ ls' = r.ls
    /\ UNCHANGED <<ing, mu, pc, backend, now, ms, lastStored>>

(***************************************************************************)
(* handlers.VectorHandler.SearchByText                                     *)
(***************************************************************************)
\* The embedder, on the texts of the model.
Embed == ("relativity" :> <<1, 0>>) @@ ("gravity" :> <<4, 3>>)

SearchByTextRequest(text, topK, filters, returnEmbedding) ==
    [Text |-> text, TopK |-> topK, MetadataFilters |-> filters,
     ReturnEmbedding |-> returnEmbedding]

\* SearchByTextRequest.Validate, then the handler's own default.
ValidatedTopK(topK) ==
    LET validated == IF topK <= 0 THEN DefaultTopK ELSE topK
    IN  IF validated = 0 THEN 5 ELSE validated

\* The response: the results, their embeddings cleared unless asked for.
Matches(results, returnEmbedding) ==
    [i \in DOMAIN results |->
        IF returnEmbedding THEN results[i]
        ELSE [results[i] EXCEPT !.Vector.Embedding = NilEmbedding]]

\* The memory store's results point at the stored records, so clearing a
\* result's embedding clears the record's; the adapter's results are records
\* of their own.
SearchByText(req) ==
    LET sreq == SearchByEmbbedingRequest(Embed[req.Text], ValidatedTopK(req.TopK),
                                         req.MetadataFilters, NoOptions)
    IN  /\ IF backend = "memory"
           THEN \E r \in MemSearch(ms, sreq) :
                    /\ ret' = [op |-> "SearchByText", req |-> req,
                               results |-> Matches(r, req.ReturnEmbedding)]
                    /\ ms' = IF req.ReturnEmbedding THEN ms
                             ELSE [ms EXCEPT !.vectors =
                                     [id \in DOMAIN @ |->
                                        IF \E i \in DOMAIN r : r[i].Vector.ID = id
                                        THEN [@[id] EXCEPT !.Embedding = NilEmbedding]
                                        ELSE @[id]]]
                    /\ ls' = ls
           ELSE \E r \in AdapterSearch(ls, sreq) :
                    /\ ret' = [op |-> "SearchByText", req |-> req,
                               results |-> Matches(r.results, req.ReturnEmbedding)]
                    /\ ms' = ms
                    /\ ls' = r.ls
        /\ UNCHANGED <<ing, mu, pc, backend, now, lastStored>>

(***************************************************************************)
(* Specification of the store life cycle: one store, bound at start,       *)
(* written and read through the facade while the clock advances            *)
(***************************************************************************)
StoreInputs ==
    Vectors(Ids \cup {EmptyID}, {<<1, 0>>, <<4, 3>>, NilEmbedding},
            {EmptyMap, [author |-> "Einstein"]}, Times)

Next ==
    \/ Tick
    \/ \E v \in StoreInputs : Store(v)
    \/ \E id \in Ids : Delete(id)
    \/ \E id \in Ids : Get(id)
    \/ List
    \/ Count

Spec == Init /\ [][Next]_vars

(***************************************************************************)
(* Specification of the queries: the memory store, written through the     *)
(* facade by callers that stamp created_at with the clock (as the          *)
(* EmbedVector handler does), and queried by the three variants            *)
(***************************************************************************)
TopKs == 0..MaxK

SearchFilters == {<< >>, <<MetadataFilter("author", "=", StrVal("Einstein"))>>}
AdvancedFilters == {EmptyMap, [author |-> [eq |-> StrVal("Einstein")]]}
HybridOptions == {NoOptions, HybridWeight(Rat(1, 2), Rat(1, 2))}

SearchRequests(options) ==
    {SearchByEmbbedingRequest(e, k, f, o) :
        e \in Embeddings, k \in TopKs, f \in SearchFilters, o \in options}

AdvancedRequests ==
    {AdvancedSearchRequest(k, f, o) :
        k \in TopKs, f \in AdvancedFilters, o \in HybridOptions}

TemporalRequests ==
    {TemporalSearchRequest(k, f, d, r, "published", NoOptions) :
        k \in TopKs, f \in AdvancedFilters, d \in {"none", "strong"},
        r \in {<< >>, <<MaxClock>>}}

InitQuery ==
    /\ Init
    /\ backend = "memory"

NextQuery ==
    \/ \E v \in Vectors(Ids, Embeddings, Metadatas, {now}) : Store(v)
    \/ \E id \in Ids : Delete(id)
    \/ \E id \in Ids : Get(id)
    \/ \E req \in SearchRequests({NoOptions}) : Search(req)
    \/ \E req \in AdvancedRequests : \E e \in Embeddings : AdvancedSearch(req, e)
    \/ \E req \in TemporalRequests : \E e \in {<<1, 0>>, <<1, 0, 0>>} :
           TemporalSearch(req, e)

SpecQuery == InitQuery /\ [][NextQuery]_vars

(***************************************************************************)
(* Specification of the text search: either store, written through the     *)
(* facade and searched through the SearchByText handler                    *)
(***************************************************************************)
TextRequests ==
    {SearchByTextRequest(t, k, f, r) :
        t \in DOMAIN Embed, k \in TopKs, f \in SearchFilters, r \in BOOLEAN}

TextVectors ==
    Vectors(Ids, {Embed[t] : t \in DOMAIN Embed}, {EmptyMap, [author |-> "Einstein"]}, {now})

NextText ==
    \/ \E v \in TextVectors : Store(v)
    \/ \E id \in Ids : Delete(id)
    \/ \E id \in Ids : Get(id)
    \/ \E req \in TextRequests : SearchByText(req)

SpecText == Init /\ [][NextText]_vars

(***************************************************************************)
(* Specification of the two stores side by side: both start empty, every   *)
(* Store and Delete is applied to both, every query is put to both         *)
(***************************************************************************)
InitTwin ==
    /\ backend = "both"
    /\ now = 1
    /\ ms = [vectors |-> EmptyMap]
    /\ ls = NewLocalStorage
    /\ lastStored = EmptyMap
    /\ ret = [op |-> "none"]
    /\ mu = Unlocked
    /\ pc = [t \in Threads |-> Idle]
    /\ ing = NoIngestor

TwinStore(vector) ==
    /\ ms' = MemStore(ms, vector, now).ms
    /\ ls' = AdapterStore(ls, vector, now).ls
    /\ ret' = [op |-> "Store", id |-> vector.ID,
               memory |-> MemStore(ms, vector, now).err,
               local |-> AdapterStore(ls, vector, now).err]
    /\ UNCHANGED <<ing, mu, pc, backend, now, lastStored>>

TwinDelete(id) ==
    /\ ms' = MemDelete(ms, id).ms
    /\ ls' = AdapterDelete(ls, id).ls
    /\ ret' = [op |-> "Delete", id |-> id,
               memory |-> MemDelete(ms, id).err,
               local |-> AdapterDelete(ls, id).err]
    /\ UNCHANGED <<ing, mu, pc, backend, now, lastStored>>

TwinSearch(req) ==
    /\ \E m \in MemSearch(ms, req) : \E l \in AdapterSearch(ls, req) :
           /\ ret' = [op |-> "Search", req |-> req,
                      memory |-> m, local |-> l.results]
           /\ ls' = l.ls
    /\ UNCHANGED <<ing, mu, pc, backend, now, ms, lastStored>>

TwinAdvancedSearch(req, queryEmbedding) ==
    /\ \E m \in MemAdvancedSearch(ms, req, queryEmbedding) :
       \E l \in AdapterAdvancedSearch(ls, req, queryEmbedding) :
           /\ ret' = [op |-> "AdvancedSearch", req |-> req,
                      queryEmbedding |-> queryEmbedding,
                      memory |-> m, local |-> l.results]
           /\ ls' = l.ls
    /\ UNCHANGED <<ing, mu, pc, backend, now, ms, lastStored>>

TwinTemporalSearch(req, queryEmbedding) ==
    /\ \E m \in MemTemporalSearch(ms, req, queryEmbedding, now) :
       \E l \in AdapterTemporalSearch(ls, req, queryEmbedding) :
           /\ ret' = [op |-> "TemporalSearch", req |-> req,
                      queryEmbedding |-> queryEmbedding,
                      memory |-> m, local |-> l.results]
           /\ ls' = l.ls
    /\ UNCHANGED <<ing, mu, pc, backend, now, ms, lastStored>>

TwinEmbeddings == {<<1, 0>>, <<4, 3>>}

NextTwin ==
    \/ \E v \in Vectors(Ids, TwinEmbeddings, {EmptyMap, [author |-> "Einstein"]}, {now}) :
           TwinStore(v)
    \/ \E id \in Ids : TwinDelete(id)
    \/ \E req \in SearchRequests(HybridOptions) :
           req.Embedding \in TwinEmbeddings /\ TwinSearch(req)
    \/ \E req \in AdvancedRequests : \E e \in TwinEmbeddings : TwinAdvancedSearch(req, e)
    \/ \E req \in TemporalRequests : TwinTemporalSearch(req, <<1, 0>>)

SpecTwin == InitTwin /\ [][NextTwin]_vars

(***************************************************************************)
(* Specification of concurrent callers: goroutines call the bound store    *)
(* and take its lock as the methods do.  Every memory.Storage method and   *)
(* LocalStorage.StoreDocument / DeleteDocument hold the lock (deferred     *)
(* unlock) while they touch the map; LocalStorage.GetDocument and the      *)
(* adapter's List, Count and Search (through GetCollection) release the    *)
(* read lock once they have the collection and touch its map afterwards.   *)
(***************************************************************************)
Writers == {"Store", "Delete"}
Readers == {"Get", "List", "Count", "Search"}

LockVectors == Vectors(Ids, {<<1, 0>>}, {EmptyMap}, {now})
LockSearch == SearchByEmbbedingRequest(<<1, 0>>, 0, << >>, NoOptions)

Calls ==
    {[at |-> "call", op |-> "Store", arg |-> v] : v \in LockVectors}
    \cup {[at |-> "call", op |-> o, arg |-> id] : o \in {"Delete", "Get"}, id \in Ids}
    \cup {[at |-> "call", op |-> o, arg |-> EmptyID] : o \in {"List", "Count"}}
    \cup {[at |-> "call", op |-> "Search", arg |-> LockSearch]}

Call(t, call) ==
    /\ pc[t] = Idle
    /\ pc' = [pc EXCEPT ![t] = call]
    /\ UNCHANGED <<ing, mu, backend, now, ms, ls, lastStored, ret>>

\* mu.Lock() at the head of Store / Delete (StoreDocument / DeleteDocument).
Lock(t) ==
    /\ pc[t].at = "call"
    /\ pc[t].op \in Writers
    /\ mu = Unlocked
    /\ mu' = [mu EXCEPT !.writer = t]
    /\ pc' = [pc EXCEPT ![t].at = "map"]
    /\ UNCHANGED <<ing, backend, now, ms, ls, lastStored, ret>>

\* mu.RLock() at the head of a read; in LocalStorage it guards only the
\* lookup of the collection.
RLock(t) ==
    /\ pc[t].at = "call"
    /\ pc[t].op \in Readers
    /\ mu.writer = NoThread
    /\ mu' = [mu EXCEPT !.readers = @ \cup {t}]
    /\ pc' = [pc EXCEPT ![t].at = IF backend = "memory" THEN "map" ELSE "collection"]
    /\ UNCHANGED <<ing, backend, now, ms, ls, lastStored, ret>>

\* mu.RUnlock() of GetDocument / GetCollection, before the map is read.
RUnlock(t) ==
    /\ pc[t].at = "collection"
    /\ mu' = [mu EXCEPT !.readers = @ \ {t}]
    /\ pc' = [pc EXCEPT ![t].at = "map"]
    /\ UNCHANGED <<ing, backend, now, ms, ls, lastStored, ret>>

InMap(t) == pc[t].at = "map"
WritesMap(t) == InMap(t) /\ pc[t].op \in Writers

\* A goroutine is writing the map while another one reads or writes it.
Race == \E t, u \in Threads : t # u /\ WritesMap(t) /\ InMap(u)

\* The call's work on the map, then the deferred unlock and the return.
Return(t) ==
    /\ InMap(t)
    /\ LET op == pc[t].op
           arg == pc[t].arg
           mem == backend = "memory"
       IN  /\ ms' = CASE mem /\ op = "Store" -> MemStore(ms, arg, now).ms
                      [] mem /\ op = "Delete" -> MemDelete(ms, arg).ms
                      [] OTHER -> ms
           /\ ls' = CASE ~mem /\ op = "Store" -> AdapterStore(ls, arg, now).ls
                      [] ~mem /\ op = "Delete" -> AdapterDelete(ls, arg).ls
                      [] ~mem /\ op = "Get" -> AdapterGet(ls, arg).ls
                      [] ~mem /\ op = "Search" -> AdapterLoadAll(ls)
                      [] OTHER -> ls
           /\ lastStored' = CASE op = "Store" -> Put(lastStored, arg.ID, Stored(arg))
                              [] op = "Delete" /\ (~mem \/ arg \in DOMAIN ms.vectors) ->
                                     Put(lastStored, arg, Deleted)
                              [] OTHER -> lastStored
           /\ ret' = [op |-> op, by |-> t]
    /\ mu' = [writer |-> IF mu.writer = t THEN NoThread ELSE mu.writer,
              readers |-> mu.readers \ {t}]
    /\ pc' = [pc EXCEPT ![t] = Idle]
    /\ UNCHANGED <<ing, backend, now>>

\* The Go runtime may detect a concurrent map read and map write and end
\* the process; otherwise the calls go on.
Fatal ==
    /\ Race
    /\ ret' = [op |-> "fatal error: concurrent map read and map write"]
    /\ pc' = [t \in Threads |-> [at |-> "dead"]]
    /\ UNCHANGED <<ing, mu, backend, now, ms, ls, lastStored>>

NextLock ==
    \/ \E t \in Threads : \E call \in Calls : Call(t, call)
    \/ \E t \in Threads : Lock(t)
    \/ \E t \in Threads : RLock(t)
    \/ \E t \in Threads : RUnlock(t)
    \/ \E t \in Threads : Return(t)
    \/ Fatal

SpecLock == Init /\ [][NextLock]_vars

(***************************************************************************)
(* Specification of the temporal search: the memory store, written while   *)
(* the clock advances, and put to the temporal search alone or together    *)
(* with the advanced search on the same inputs                             *)
(***************************************************************************)
DecayStrengths == {"none", "weak", "medium", "strong"}

TemporalEmbeddings == {<<1, 0>>, <<-1, 0>>}

DecayRequests ==
    {TemporalSearchRequest(k, << >>, d, r, "published", NoOptions) :
        k \in {0, 1}, d \in DecayStrengths, r \in {<< >>, <<1>>, <<MaxClock + 1>>}}

NoDecayRequests ==
    {TemporalSearchRequest(k, f, "none", << >>, "published", o) :
        k \in TopKs, f \in AdvancedFilters, o \in HybridOptions}

\* The same inputs put to TemporalSearch and to AdvancedSearch, one call
\* after the other with no write in between.
TemporalAndAdvanced(req, queryEmbedding) ==
    /\ backend = "memory"
    /\ \E t \in MemTemporalSearch(ms, req, queryEmbedding, now) :
       \E a \in MemAdvancedSearch(ms, AdvancedSearchRequest(req.TopK, req.Filters, req.Options),
                                  queryEmbedding) :
           ret' = [op |-> "TemporalAndAdvanced", req |-> req,
                   queryEmbedding |-> queryEmbedding,
                   temporal |-> t, advanced |-> a]
    /\ UNCHANGED <<ing, mu, pc, backend, now, ms, ls, lastStored>>

NextTemporal ==
    \/ Tick
    \/ \E v \in Vectors(Ids, TemporalEmbeddings, {EmptyMap, [author |-> "Einstein"]}, {now}) :
           Store(v)
    \/ \E id \in Ids : Delete(id)
    \/ \E req \in DecayRequests : TemporalSearch(req, <<1, 0>>)
    \/ \E req \in NoDecayRequests : TemporalAndAdvanced(req, <<1, 0>>)

SpecTemporal == InitQuery /\ [][NextTemporal]_vars

(***************************************************************************)
(* Specification of the two stores side by side holding embeddings of two  *)
(* lengths, queried with embeddings of either length                       *)
(***************************************************************************)
MixedEmbeddings == {<<1, 0>>, <<4, 3>>, <<1, 0, 0>>}

MixedQueries == {<<1, 0>>, <<1, 0, 0>>}

NextMixed ==
    \/ \E v \in Vectors(Ids, MixedEmbeddings, {EmptyMap, [author |-> "Einstein"]}, {now}) :
           TwinStore(v)
    \/ \E id \in Ids : TwinDelete(id)
    \/ \E req \in SearchRequests({NoOptions}) :
           req.Embedding \in MixedQueries /\ TwinSearch(req)
    \/ \E req \in AdvancedRequests : \E e \in MixedQueries : TwinAdvancedSearch(req, e)
    \/ \E req \in TemporalRequests : \E e \in MixedQueries : TwinTemporalSearch(req, e)

SpecMixed == InitTwin /\ [][NextMixed]_vars

(***************************************************************************)
(* Specification of a memory store holding more records than the default   *)
(* top-k, each of another cosine similarity to the query, and queried with *)
(* an absent (0), a negative and the default k                             *)
(***************************************************************************)
NumDocs == DefaultTopK + 1

\* The embedding of the record of each id: integer norms, and eleven
\* different cosine similarities to the query <<1, 0>>.
BulkEmbeddings ==
    << <<1, 0>>, <<24, 7>>, <<12, 5>>, <<15, 8>>, <<4, 3>>, <<21, 20>>,
       <<20, 21>>, <<3, 4>>, <<8, 15>>, <<5, 12>>, <<7, 24>> >>

BulkTopKs == {-1, 0, DefaultTopK}

NextBulk ==
    \/ \E id \in 1..NumDocs : Store(Vector(id, BulkEmbeddings[id], EmptyMap, now, ZeroTime))
    \/ \E k \in BulkTopKs : Search(SearchByEmbbedingRequest(<<1, 0>>, k, << >>, NoOptions))
    \/ \E k \in BulkTopKs : AdvancedSearch(AdvancedSearchRequest(k, EmptyMap, NoOptions), <<1, 0>>)
    \/ \E k \in BulkTopKs :
           TemporalSearch(TemporalSearchRequest(k, EmptyMap, "none", << >>, "created_at",
                                                NoOptions), <<1, 0>>)

SpecBulk == InitQuery /\ [][NextBulk]_vars

(***************************************************************************)
(* Specifications of the persistent store by itself: LocalStorage called   *)
(* with fresh documents and with the documents it holds, and               *)
(*   SpecFault:  the writes of StoreDocument can fail;                     *)
(*   SpecReopen: Close and a re-open of the base path;                     *)
(*   SpecExport: Export of the bound collection, Import under a new name   *)
(***************************************************************************)
MaxVersion == 2

\* Documents as a caller builds them: no timestamps, version 0.
FreshDocuments(metas, embs) ==
    {[ID |-> id, CreatedAt |-> ZeroTime, UpdatedAt |-> ZeroTime, Version |-> 0,
      Metadata |-> convertMetadataToInterface(m), Embedding |-> EmbeddingData(e)] :
        id \in Ids, m \in metas, e \in embs}

ExportPath == "backup/default.json"
ImportedCollection == "copy"

DiskStore(doc, fault) ==
    /\ backend = "local"
    /\ doc.Version < MaxVersion
    /\ ls' = StoreDocument(ls, doc, now, fault).ls
    /\ ret' = [op |-> "StoreDocument", id |-> doc.ID, fault |-> fault,
               err |-> StoreDocument(ls, doc, now, fault).err]
    /\ UNCHANGED <<ing, mu, pc, backend, now, ms, lastStored>>

DiskDelete(id) ==
    /\ backend = "local"
    /\ ls' = DeleteDocument(ls, id).ls
    /\ ret' = [op |-> "DeleteDocument", id |-> id, err |-> DeleteDocument(ls, id).err]
    /\ UNCHANGED <<ing, mu, pc, backend, now, ms, lastStored>>

DiskGet(id) ==
    /\ backend = "local"
    /\ ls' = GetDocument(ls, id).ls
    /\ ret' = [op |-> "GetDocument", id |-> id, err |-> GetDocument(ls, id).err]
    /\ UNCHANGED <<ing, mu, pc, backend, now, ms, lastStored>>

\* Close, then NewLocalStorage on the same base path.
Reopen ==
    /\ backend = "local"
    /\ ls' = loadOrCreateSchema(Close(ls))
    /\ ret' = [op |-> "Reopen"]
    /\ UNCHANGED <<ing, mu, pc, backend, now, ms, lastStored>>

DiskExport ==
    /\ backend = "local"
    /\ ls' = Export(ls, BoundCollection, ExportPath).ls
    /\ ret' = [op |-> "Export", err |-> Export(ls, BoundCollection, ExportPath).err]
    /\ UNCHANGED <<ing, mu, pc, backend, now, ms, lastStored>>

DiskImport ==
    /\ backend = "local"
    /\ ls' = Import(ls, ImportedCollection, ExportPath).ls
    /\ ret' = [op |-> "Import", err |-> Import(ls, ImportedCollection, ExportPath).err]
    /\ UNCHANGED <<ing, mu, pc, backend, now, ms, lastStored>>

InitDisk == Init /\ backend = "local"

NextFault ==
    \/ \E doc \in FreshDocuments({EmptyMap}, {<<1, 0>>, NilEmbedding}) :
       \E fault \in Faults \cup {NoFault} : DiskStore(doc, fault)
    \/ \E id \in Ids : DiskDelete(id)

SpecFault == InitDisk /\ [][NextFault]_vars

NextReopen ==
    \/ \E doc \in FreshDocuments({EmptyMap, [author |-> "Einstein"]},
                                  {<<1, 0>>, NilEmbedding}) : DiskStore(doc, NoFault)
    \/ \E id \in DOMAIN ls.Documents : DiskStore(ls.Documents[id], NoFault)
    \/ \E id \in Ids : DiskDelete(id)
    \/ \E id \in Ids : DiskGet(id)
    \/ Reopen

SpecReopen == InitDisk /\ [][NextReopen]_vars

NextExport ==
    \/ \E doc \in FreshDocuments({EmptyMap, [author |-> "Einstein"]}, {<<1, 0>>}) :
           DiskStore(doc, NoFault)
    \/ \E id \in Ids : DiskDelete(id)
    \/ DiskExport
    \/ DiskImport

SpecExport == InitDisk /\ [][NextExport]_vars

(***************************************************************************)
(* Specification of the store read back: either store behind the facade,   *)
(* and on the persistent store a close and re-open of the base path, an    *)
(* Export of the bound collection and an Import of the export into it      *)
(***************************************************************************)
AdapterVectors ==
    Vectors(Ids, {<<1, 0>>, NilEmbedding}, {EmptyMap}, {ZeroTime})

\* Import of the exported file under the name of the bound collection.
DiskRestore ==
    /\ backend = "local"
    /\ ls' = Import(ls, BoundCollection, ExportPath).ls
    /\ ret' = [op |-> "Import", err |-> Import(ls, BoundCollection, ExportPath).err]
    /\ UNCHANGED <<ing, mu, pc, backend, now, ms, lastStored>>

NextAdapter ==
    \/ \E v \in AdapterVectors : Store(v)
    \/ \E id \in Ids : Delete(id)
    \/ \E id \in Ids : Get(id)
    \/ List
    \/ Count
    \/ Reopen
    \/ DiskExport
    \/ DiskRestore

SpecAdapter == Init /\ [][NextAdapter]_vars

(***************************************************************************)
(* ingestion.Ingestor: Run and processBatch                                *)
(***************************************************************************)
MaxRecords == 3
MaxBatch == 2

\* What source.Next() returns: a record, a read error, or io.EOF.
Record(id, text, metadata) ==
    [kind |-> "record", ID |-> id, Text |-> text, Metadata |-> metadata]
ReadError == [kind |-> "read_error"]
EOF == [kind |-> "eof"]

\* embedder.Embed / EmbedImage: an embedding, or an error on a text the
\* embedder cannot embed.
EmbedText(text) ==
    IF text \in DOMAIN Embed
    THEN [err |-> "nil", embedding |-> Embed[text]]
    ELSE [err |-> "embed", embedding |-> NilEmbedding]

NewStats ==
    [TotalRecords |-> 0, SuccessCount |-> 0, FailureCount |-> 0, SkippedCount |-> 0,
     FailureReasons |-> EmptyMap]

\* The value of Run's *Stats result when it is nil.
NilStats == [nil |-> TRUE]

Fail_Unreasoned(stats, reason) ==
    [stats EXCEPT !.FailureCount = @ + 1]

\* ing.stats.FailureCount++; ing.stats.FailureReasons[reason]++
Fail(stats, reason) ==
    [stats EXCEPT !.FailureCount = @ + 1,
                  !.FailureReasons =
                      Put(@, reason, IF reason \in DOMAIN @ THEN @[reason] + 1 ELSE 1)]

Skip_Uncounted(stats) == stats

\* ing.stats.SkippedCount++
Skip(stats) == [stats EXCEPT !.SkippedCount = @ + 1]

ctxDone_Never(i) == FALSE

\* case <-ctx.Done(): the channel is readable once the deadline has fired.
ctxDone(i) == i.done

Full_Late(batch, config) == Len(batch) > config.BatchSize

\* len(batch) >= ing.config.BatchSize
Full(batch, config) == Len(batch) >= config.BatchSize

\* How Run treats what the source yields.
Classes == {"read_error", "empty", "unsupported", "unembeddable", "good"}

Class(item, multimodal) ==
    IF item.kind = "read_error" THEN "read_error"
    ELSE IF item.Text = "" THEN "empty"
    ELSE IF "type" \in DOMAIN item.Metadata /\ item.Metadata["type"] = "image"
            /\ ~multimodal THEN "unsupported"
    ELSE IF EmbedText(item.Text).err # "nil" THEN "unembeddable"
    ELSE "good"

\* The number of Stores of a batch that fail.
RECURSIVE Failing(_)
Failing(faults) ==
    IF faults = << >> THEN 0
    ELSE (IF Head(faults) = NoFault THEN 0 ELSE 1) + Failing(Tail(faults))

\* NewIngestor, and Run up to the loop with the source open.  appended and
\* flushed count the vectors put in a batch and those handed to processBatch,
\* reads counts the calls of source.Next, late those made with the context
\* done, yielded what the source has yielded by class, faulted the failed Stores.
NewIngestor(batchSize, dryRun, multimodal) ==
    [pc |-> "check",
     config |-> [BatchSize |-> batchSize, DryRun |-> dryRun],
     multimodal |-> multimodal,
     done |-> FALSE,
     batch |-> << >>,
     stats |-> NewStats,
     reads |-> 0, late |-> 0, appended |-> 0, flushed |-> 0,
     yielded |-> [c \in Classes |-> 0], faulted |-> 0]

Running == ing.pc \in {"check", "next", "flush"}

\* The id Run makes up for a record without one.
GeneratedID(totalRecords) == NumIds + totalRecords

\* storage.Store on the bound store, with the write that fails (if any).
FacadeStore(m, l, vector, fault) ==
    IF backend = "memory"
    THEN [ms |-> MemStore(m, vector, now).ms, ls |-> l, err |-> MemStore(m, vector, now).err]
    ELSE [ms |-> m, ls |-> StoreDocument(l, AdapterDocument(vector), now, fault).ls,
          err |-> StoreDocument(l, AdapterDocument(vector), now, fault).err]

\* processBatch: in a dry run SuccessCount grows by the batch; otherwise each
\* vector is stored in batch order and counted as success or storage_error.
RECURSIVE processBatch(_, _, _, _, _, _)
processBatch(config, stats, m, l, batch, faults) ==
    IF config.DryRun
    THEN [stats |-> [stats EXCEPT !.SuccessCount = @ + Len(batch)], ms |-> m, ls |-> l]
    ELSE IF batch = << >>
    THEN [stats |-> stats, ms |-> m, ls |-> l]
    ELSE LET r == FacadeStore(m, l, Head(batch), Head(faults))
         IN  processBatch(config,
                          IF r.err = "nil"
                          THEN [stats EXCEPT !.SuccessCount = @ + 1]
                          ELSE Fail(stats, "storage_error"),
                          r.ms, r.ls, Tail(batch), Tail(faults))

\* The writes that can fail during a batch: none on the memory store, and
\* none in a dry run, which calls no Store.
BatchFaults(n) ==
    IF backend = "memory" \/ ing.config.DryRun THEN {[i \in 1..n |-> NoFault]}
    ELSE [1..n -> {NoFault, "document"}]

\* Run: source.Open, which can fail, and the batch buffer.
IngestStart(batchSize, dryRun, multimodal) ==
    /\ ing.pc = "idle"
    /\ \/ ing' = NewIngestor(batchSize, dryRun, multimodal)
       \/ ing' = [pc |-> "returned", out |-> [stats |-> NilStats, err |-> "source_open"],
                  config |-> [BatchSize |-> batchSize, DryRun |-> dryRun],
                  multimodal |-> multimodal, done |-> FALSE,
                  batch |-> << >>, stats |-> NewStats,
                  reads |-> 0, late |-> 0, appended |-> 0, flushed |-> 0,
                  yielded |-> [c \in Classes |-> 0], faulted |-> 0]
    /\ UNCHANGED <<backend, now, ms, ls, lastStored, ret, mu, pc>>

\* The deadline of the context fires.
Expire ==
    /\ Running
    /\ ~ing.done
    /\ ing' = [ing EXCEPT !.done = TRUE]
    /\ UNCHANGED <<backend, now, ms, ls, lastStored, ret, mu, pc>>

\* select { case <-ctx.Done(): return ing.stats, ctx.Err(); default: }
IngestCheck ==
    /\ ing.pc = "check"
    /\ ing' = IF ctxDone(ing)
              THEN [pc |-> "returned", out |-> [stats |-> ing.stats, err |-> "cancelled"]]
                       @@ ing
              ELSE [ing EXCEPT !.pc = "next"]
    /\ UNCHANGED <<backend, now, ms, ls, lastStored, ret, mu, pc>>

\* One pass of the loop body from source.Next() to the append to the batch.
IngestNext(item, faults) ==
    /\ ing.pc = "next"
    /\ item.kind = "eof" \/ ing.reads < MaxRecords
    /\ LET read == [ing EXCEPT !.reads = @ + 1,
                               !.late = IF ing.done THEN @ + 1 ELSE @]
           counted == [read EXCEPT !.stats.TotalRecords = @ + 1,
                                   !.yielded[Class(item, ing.multimodal)] = @ + 1]
       IN  CASE item.kind = "eof" ->
                  LET r == processBatch(ing.config, ing.stats, ms, ls, ing.batch, faults)
                  IN  /\ faults \in BatchFaults(Len(ing.batch))
                      /\ ing' = [pc |-> "returned", out |-> [stats |-> r.stats, err |-> "nil"]]
                                   @@ [read EXCEPT !.stats = r.stats,
                                                   !.flushed = @ + Len(ing.batch),
                                                   !.faulted = @ + Failing(faults)]
                      /\ ms' = r.ms /\ ls' = r.ls
             [] item.kind = "read_error" ->
                  /\ faults = << >>
                  /\ ing' = [read EXCEPT !.stats = Fail(@, "read_error"),
                                          !.yielded["read_error"] = @ + 1,
                                          !.pc = "check"]
                  /\ UNCHANGED <<ms, ls>>
             [] OTHER ->
                  /\ faults = << >>
                  /\ UNCHANGED <<ms, ls>>
                  /\ ing' =
                       IF item.Text = ""
                       THEN [counted EXCEPT !.stats = Skip(@), !.pc = "check"]
                       ELSE IF "type" \in DOMAIN item.Metadata
                               /\ item.Metadata["type"] = "image" /\ ~ing.multimodal
                       THEN [counted EXCEPT !.stats = Fail(@, "embedder_not_multimodal"),
                                            !.pc = "check"]
                       ELSE IF EmbedText(item.Text).err # "nil"
                       THEN [counted EXCEPT !.stats = Fail(@, "embed_error"), !.pc = "check"]
                       ELSE [counted EXCEPT
                                !.batch = Append(@,
                                    Vector(IF item.ID = EmptyID
                                           THEN GeneratedID(counted.stats.TotalRecords)
                                           ELSE item.ID,
                                           EmbedText(item.Text).embedding, item.Metadata,
                                           now, now)),
                                !.appended = @ + 1,
                                !.pc = "flush"]
    /\ UNCHANGED <<backend, now, lastStored, ret, mu, pc>>

\* if len(batch) >= ing.config.BatchSize { ing.processBatch(batch); batch = make(...) }
IngestFlush(faults) ==
    /\ ing.pc = "flush"
    /\ IF Full(ing.batch, ing.config)
       THEN LET r == processBatch(ing.config, ing.stats, ms, ls, ing.batch, faults)
            IN  /\ faults \in BatchFaults(Len(ing.batch))
                /\ ing' = [ing EXCEPT !.stats = r.stats, !.batch = << >>,
                                      !.flushed = @ + Len(ing.batch),
                                      !.faulted = @ + Failing(faults), !.pc = "check"]
                /\ ms' = r.ms /\ ls' = r.ls
       ELSE /\ faults = << >>
            /\ ing' = [ing EXCEPT !.pc = "check"]
            /\ UNCHANGED <<ms, ls>>
    /\ UNCHANGED <<backend, now, lastStored, ret, mu, pc>>

(***************************************************************************)
(* Specification of an ingestion run into the bound store                  *)
(***************************************************************************)
BatchSizes == 0..MaxBatch

SourceItems ==
    {Record(id, text, m) :
        id \in {EmptyID, 1}, text \in {"", "relativity", "unembeddable"},
        m \in {EmptyMap, [type |-> "image"]}}
    \cup {ReadError, EOF}

FaultSeqs == UNION {[1..n -> {NoFault, "document"}] : n \in 0..MaxBatch}

NextIngest ==
    \/ \E b \in BatchSizes : \E d, mm \in BOOLEAN : IngestStart(b, d, mm)
    \/ Expire
    \/ IngestCheck
    \/ \E item \in SourceItems : \E faults \in FaultSeqs : IngestNext(item, faults)
    \/ \E faults \in FaultSeqs : IngestFlush(faults)

SpecIngest == Init /\ [][NextIngest]_vars

(***************************************************************************)
(* Specification of the filter evaluator called on its own                 *)
(***************************************************************************)
FilterFields == {"author", "year"}

FilterMetadata ==
    {EmptyMap, [author |-> "Einstein"], [author |-> "einstein"], [year |-> "1925"],
     [year |-> "9"], [author |-> "Einstein", year |-> "1925"],
     [author |-> "einstein", year |-> "9"]}

\* An operator with an operand.
Clause(op, operand) == [op |-> op, operand |-> operand]

Clauses ==
    {Clause("eq", StrVal("Einstein")), Clause("neq", StrVal("Einstein")),
     Clause("eq", NumVal(1925)),
     Clause("lt", NumVal(1925)), Clause("lte", NumVal(1925)),
     Clause("gt", NumVal(1900)), Clause("gte", StrVal("9")),
     Clause("lt", StrVal("einstein")),
     Clause("between", ListVal(<<NumVal(1900), NumVal(1925)>>)),
     Clause("between", NumVal(1900)),
     Clause("contains", StrVal("STEIN")),
     Clause("in", ListVal(<<StrVal("Einstein"), NumVal(9)>>)),
     Clause("exists", BoolVal(TRUE)), Clause("exists", BoolVal(FALSE)),
     Clause("exists", StrVal("true")),
     Clause("regex", StrVal("Einstein"))}

\* The expressions of one clause, and those of two of the range and presence
\* clauses.
PairedOps == {"gte", "lte", "neq", "exists"}

FilterExprs ==
    {(c.op :> c.operand) : c \in Clauses}
    \cup {(c.op :> c.operand) @@ (d.op :> d.operand) :
             c, d \in {x \in Clauses : x.op \in PairedOps}}

FilterMaps ==
    {EmptyMap}
    \cup {(f :> e) : f \in FilterFields, e \in FilterExprs}
    \cup {[author |-> a, year |-> y] :
             a \in {(c.op :> c.operand) : c \in {x \in Clauses : x.op \in {"eq", "exists"}}},
             y \in {e \in FilterExprs : DOMAIN e \subseteq {"gte", "lte", "between"}}}

\* For each field of a filter, an order over the operators of its expression.
ExprOrders(filters) ==
    {ops \in [DOMAIN filters ->
                 UNION {RangeOrders(DOMAIN filters[f]) : f \in DOMAIN filters}] :
        \A f \in DOMAIN filters : ops[f] \in RangeOrders(DOMAIN filters[f])}

\* FilterEvaluator.Evaluate, with the order its two ranges take.
EvaluateCall(metadata, filters, fields, ops) ==
    /\ ret' = [op |-> "Evaluate", metadata |-> metadata, filters |-> filters,
               fields |-> fields, ops |-> ops,
               result |-> EvaluateRange(metadata, filters, fields, ops)]
    /\ UNCHANGED <<ing, backend, now, ms, ls, lastStored, mu, pc>>

\* FilterEvaluator.evaluateExpression on a value that is there or is not.
ExpressionCall(value, exists, expr, ops) ==
    /\ ret' = [op |-> "evaluateExpression", value |-> value, exists |-> exists,
               expr |-> expr, ops |-> ops,
               result |-> evaluateExpressionRange(value, exists, expr, ops)]
    /\ UNCHANGED <<ing, backend, now, ms, ls, lastStored, mu, pc>>

NextFilter ==
    \/ \E metadata \in FilterMetadata : \E filters \in FilterMaps :
          \E fields \in RangeOrders(DOMAIN filters) :
             \E ops \in ExprOrders(filters) :
                EvaluateCall(metadata, filters, fields, ops)
    \/ \E exists \in BOOLEAN : \E expr \in FilterExprs : \E ops \in RangeOrders(DOMAIN expr) :
          \E value \in IF exists THEN {"Einstein", "einstein", "1925", "9"} ELSE {""} :
             ExpressionCall(value, exists, expr, ops)

SpecFilter == Init /\ [][NextFilter]_vars

(***************************************************************************)
(* C1: on either store, Get(id) returns the record most recently stored    *)
(* under id (same id, embedding and metadata) as long as id has not been   *)
(* deleted since, and returns not_found from a successful Delete(id) until *)
(* id is stored again.                                                     *)
(***************************************************************************)
C1_GetReturnsLastStored ==
    ret.op = "Get" =>
        IF Present(lastStored, ret.id)
        THEN /\ ret.err = "nil"
             /\ ret.vector.ID = ret.id
             /\ Stored(ret.vector) = lastStored[ret.id]
        ELSE ret.err = "not_found"

\* Get answers not_found for an id that was stored and then deleted, while
\* another record is still held.
C1_Witness ==
    /\ ret.op = "Get"
    /\ ret.id \in DOMAIN lastStored
    /\ lastStored[ret.id] = Deleted
    /\ ret.err = "not_found"
    /\ \E id \in Ids : Present(lastStored, id)

(***************************************************************************)
(* C2: in the memory store, a Store on an id that exists leaves the stored *)
(* created_at equal to the one the existing record had, whatever the       *)
(* incoming record carries, and sets updated_at to the clock; a Store on a *)
(* new id sets both to the clock; the id is never changed.                 *)
(***************************************************************************)
C2_StorePreservesCreatedAt ==
    [][\A v \in StoreInputs :
          (backend = "memory" /\ Store(v) /\ ret'.err = "nil") =>
              /\ ms'.vectors[v.ID].ID = v.ID
              /\ ms'.vectors[v.ID].UpdatedAt = now
              /\ ms'.vectors[v.ID].CreatedAt =
                     IF v.ID \in DOMAIN ms.vectors
                     THEN ms.vectors[v.ID].CreatedAt
                     ELSE now]_vars

(***************************************************************************)
(* The query a returned result sequence answers, read back from ret        *)
(***************************************************************************)
IsQuery == ret.op \in {"Search", "AdvancedSearch", "TemporalSearch"}

QueryEmbedding == IF ret.op = "Search" THEN ret.req.Embedding ELSE ret.queryEmbedding

\* The record's metadata passes the query's filter (no filter passes all).
PassesFilter(metadata) ==
    IF ret.op = "Search"
    THEN Len(ret.req.Filters) = 0 \/ matchesAdvancedFilters(metadata, ret.req.Filters)
    ELSE Evaluate(metadata, ret.req.Filters)

\* Stored records of the query's dimension that pass its filter.
MemMatches ==
    {id \in DOMAIN ms.vectors :
        /\ Len(ms.vectors[id].Embedding) = Len(QueryEmbedding)
        /\ PassesFilter(ms.vectors[id].Metadata)}

Min(a, b) == IF a < b THEN a ELSE b

NonIncreasing(results) ==
    \A i, j \in DOMAIN results :
        i < j => ~RatGreater(results[j].Score, results[i].Score)

(***************************************************************************)
(* C3: for every state of the memory store and every query variant with    *)
(* k >= 1, the final scores do not increase along the result sequence and  *)
(* the number of results is min(k, number of stored records of the         *)
(* query's dimension that pass the filter).                                *)
(***************************************************************************)
C3_SortedAndCounted ==
    (IsQuery /\ ret.req.TopK >= 1) =>
        /\ NonIncreasing(ret.results)
        /\ Len(ret.results) = Min(ret.req.TopK, Cardinality(MemMatches))

\* A temporal search with k = 1 over two matching records of equal cosine:
\* it returned one result, the record that had decayed less.
C3_Witness ==
    /\ ret.op = "TemporalSearch"
    /\ ret.req.TopK = 1
    /\ Cardinality(MemMatches) = 2
    /\ Len(ret.results) = 1
    /\ \E id \in MemMatches :
           LET other == TemporalSearchResult(ms.vectors[id],
                                             GetTemporalConfig(ret.req, now),
                                             QueryEmbedding, now)
           IN  /\ id # ret.results[1].Vector.ID
               /\ other.BaseScore = ret.results[1].BaseScore
               /\ RatGreater(ret.results[1].Score, other.Score)

\* The scored candidates the query's variant collects before it sorts.
MemCandidates ==
    CASE ret.op = "Search" -> MemSearchCandidates(ms, ret.req)
      [] ret.op = "AdvancedSearch" -> MemAdvancedCandidates(ms, ret.req, ret.queryEmbedding)
      [] ret.op = "TemporalSearch" ->
             MemTemporalCandidates(ms, ret.req, ret.queryEmbedding, now)

Returned(results) == {results[i] : i \in DOMAIN results}

(***************************************************************************)
(* C4: results of equal final score come in ascending id order, and of     *)
(* several tied records the ones of least id survive the truncation to k,  *)
(* so a store snapshot and a query determine the result sequence.          *)
(***************************************************************************)
C4_TiesByAscendingId ==
    IsQuery =>
        /\ \A i, j \in DOMAIN ret.results :
               (i < j /\ ret.results[i].Score = ret.results[j].Score)
                   => ret.results[i].Vector.ID < ret.results[j].Vector.ID
        /\ \A c \in MemCandidates \ Returned(ret.results) :
               \A i \in DOMAIN ret.results :
                   c.Score = ret.results[i].Score => ret.results[i].Vector.ID < c.Vector.ID

\* A Search without filters whose k cannot cut a matching record off.
UnfilteredUncutSearch ==
    /\ ret.op = "Search"
    /\ Len(ret.req.Filters) = 0
    /\ (ret.req.TopK = 0 \/ ret.req.TopK >= Cardinality(MemMatches))

HasResult(id, score) ==
    \E i \in DOMAIN ret.results :
        ret.results[i].Vector.ID = id /\ ret.results[i].Score = score

(***************************************************************************)
(* C9 (as stated): for any stored record R, a search with R's embedding    *)
(* and no filters returns a result for R with score 1.0.                   *)
(***************************************************************************)
C9_SelfQueryAsStated ==
    (ret.op = "Search" /\ Len(ret.req.Filters) = 0) =>
        \A id \in DOMAIN ms.vectors :
            ms.vectors[id].Embedding = ret.req.Embedding => HasResult(id, One)

(***************************************************************************)
(* C9 (amended): for any stored record R whose embedding has a non-zero    *)
(* norm, a search with R's embedding, no filters and a k that is unlimited *)
(* or at least the number of matching records returns R with score 1.0.    *)
(***************************************************************************)
C9_SelfQueryScoresOne ==
    UnfilteredUncutSearch =>
        \A id \in DOMAIN ms.vectors :
            (/\ ms.vectors[id].Embedding = ret.req.Embedding
             /\ Dot(ret.req.Embedding, ret.req.Embedding) # 0)
                => HasResult(id, One)

\* A self-query on [4, 3] answered with that record at 1.0, ahead of another
\* record of a lower score.
C9_Witness ==
    /\ UnfilteredUncutSearch
    /\ ret.req.Embedding = <<4, 3>>
    /\ Len(ret.results) = 2
    /\ ret.results[1].Vector.Embedding = <<4, 3>>
    /\ ret.results[1].Score = One
    /\ ret.results[2].Score = Rat(4, 5)

(***************************************************************************)
(* C10 (as stated): in an advanced search with hybrid weights every        *)
(* candidate of the query's dimension is returned with the final score     *)
(* w_v * cosine + w_m * metadata_score, metadata_score being 1 when the    *)
(* record passes the filters and 0 when it does not (so a record failing   *)
(* the filter is returned, below a matching one of equal cosine).          *)
(***************************************************************************)
C10_HybridAsStated ==
    (ret.op = "AdvancedSearch" /\ ret.req.Options # NoOptions /\ ret.req.TopK = 0) =>
        \A id \in DOMAIN ms.vectors :
            Len(ms.vectors[id].Embedding) = Len(ret.queryEmbedding) =>
                HasResult(id,
                    RatAdd(RatMul(ret.req.Options[1].Vector,
                                  CosineSimilarity(ret.queryEmbedding, ms.vectors[id].Embedding)),
                           RatMul(ret.req.Options[1].Metadata,
                                  IF Evaluate(ms.vectors[id].Metadata, ret.req.Filters)
                                  THEN One ELSE Zero)))

(***************************************************************************)
(* C10 (amended): in an advanced search with hybrid weights every returned *)
(* record passes the filters and has the final score w_v * cosine + w_m    *)
(* (its metadata_score is 1); a record failing the filters is not returned.*)
(***************************************************************************)
C10_HybridOverMatches ==
    (ret.op = "AdvancedSearch" /\ ret.req.Options # NoOptions) =>
        /\ \A i \in DOMAIN ret.results :
               /\ Evaluate(ret.results[i].Vector.Metadata, ret.req.Filters)
               /\ ret.results[i].Score =
                      RatAdd(RatMul(ret.req.Options[1].Vector,
                                    CosineSimilarity(ret.queryEmbedding,
                                                     ret.results[i].Vector.Embedding)),
                             ret.req.Options[1].Metadata)
        /\ \A id \in DOMAIN ms.vectors :
               ~Evaluate(ms.vectors[id].Metadata, ret.req.Filters) =>
                   \A i \in DOMAIN ret.results : ret.results[i].Vector.ID # id

\* Two records of cosine 4/5, one passing the filter and one not, weights
\* 1/2 and 1/2: the matching record comes back at 9/10 and alone.
C10_Witness ==
    /\ ret.op = "AdvancedSearch"
    /\ ret.req.Options = HybridWeight(Rat(1, 2), Rat(1, 2))
    /\ DOMAIN ret.req.Filters # {}
    /\ Cardinality(DOMAIN ms.vectors) = 2
    /\ \A id \in DOMAIN ms.vectors :
           CosineSimilarity(ret.queryEmbedding, ms.vectors[id].Embedding) = Rat(4, 5)
    /\ \E id \in DOMAIN ms.vectors : ~Evaluate(ms.vectors[id].Metadata, ret.req.Filters)
    /\ Len(ret.results) = 1
    /\ ret.results[1].Score = Rat(9, 10)

\* What Get(id) answers in the current state, on the bound store.
GetAnswer(id) ==
    IF backend = "memory"
    THEN MemGet(ms, id)
    ELSE LET r == AdapterGet(ls, id)
         IN  IF r.err = "nil" THEN [err |-> "nil", vector |-> r.vector]
             ELSE [err |-> r.err]

(***************************************************************************)
(* C6: answering a search whose caller asked for no embeddings in the      *)
(* response leaves every stored record as it was: Get(id) answers after    *)
(* the response what it answered before it, for every id.                  *)
(***************************************************************************)
C6_ResponseLeavesRecords ==
    [][(\E req \in TextRequests : ~req.ReturnEmbedding /\ SearchByText(req)) =>
          \A id \in Ids : GetAnswer(id)' = GetAnswer(id)]_vars

\* The two stores' answers to the last query put to both.
IsTwinQuery ==
    /\ backend = "both"
    /\ ret.op \in {"Search", "AdvancedSearch", "TemporalSearch"}

Ranking(results) ==
    [i \in DOMAIN results |-> [ID |-> results[i].Vector.ID, Score |-> results[i].Score]]

(***************************************************************************)
(* C5: for any store state, filter and query variant, on either backend,   *)
(* every returned record satisfies the filter on its metadata.             *)
(***************************************************************************)
C5_ResultsPassFilter ==
    IsTwinQuery =>
        /\ \A i \in DOMAIN ret.memory : PassesFilter(ret.memory[i].Vector.Metadata)
        /\ \A i \in DOMAIN ret.local : PassesFilter(ret.local[i].Vector.Metadata)

(***************************************************************************)
(* C8: after the same sequence of Store and Delete calls on both stores,   *)
(* every query (Search, AdvancedSearch with filters, TemporalSearch)       *)
(* returns the same ranked ids with the same scores from both.             *)
(***************************************************************************)
C8_BackendsAgree ==
    IsTwinQuery => Ranking(ret.memory) = Ranking(ret.local)

(***************************************************************************)
(* C7: in each store a call that writes the record/document map is in it   *)
(* holding the lock exclusively and a call that reads the map is in it     *)
(* holding the lock in shared mode, so no read of the map overlaps a write *)
(* to it.                                                                  *)
(***************************************************************************)
C7_LockDiscipline ==
    /\ \A t \in Threads :
           InMap(t) => IF pc[t].op \in Writers THEN mu.writer = t ELSE t \in mu.readers
    /\ ~Race

(***************************************************************************)
(* C11: for any store state, query embedding, filters, k and options, a    *)
(* temporal search with decay none returns the same records in the same    *)
(* order with the same scores as the advanced search on the same inputs,   *)
(* and every decay factor it reports is 1.0.                               *)
(***************************************************************************)
C11_NoDecayIsAdvancedSearch ==
    (ret.op = "TemporalAndAdvanced" /\ ret.req.TemporalDecay = "none") =>
        /\ Ranking(ret.temporal) = Ranking(ret.advanced)
        /\ \A i \in DOMAIN ret.temporal : ret.temporal[i].DecayFactor = One

\* The reference time of a temporal request put at time t.
ReferenceTimeOf(req, t) == IF req.ReferenceTime # << >> THEN req.ReferenceTime[1] ELSE t

Decaying == {"strong", "medium", "weak"}

\* score = base_score * decay_factor, and the decay factor is 1 at or after
\* the reference time, below 1 before it and smaller for the older document.
DecayReported(results, ref) ==
    /\ \A i \in DOMAIN results :
          /\ results[i].Score = RatMul(results[i].BaseScore, results[i].DecayFactor)
          /\ results[i].DocumentTime >= ref => results[i].DecayFactor = One
          /\ results[i].DocumentTime < ref => RatGreater(One, results[i].DecayFactor)
    /\ \A i, j \in DOMAIN results :
          (results[i].DocumentTime < results[j].DocumentTime /\ results[i].DocumentTime < ref)
              => RatGreater(results[j].DecayFactor, results[i].DecayFactor)

\* A step of TemporalSearch with a decaying strength.
DecayingSearchStep ==
    /\ UNCHANGED <<now, ms>>
    /\ ret'.op = "TemporalSearch"
    /\ ret'.req.TemporalDecay \in Decaying

(***************************************************************************)
(* C12 as stated: with decay strong, medium or weak every result has       *)
(* score = base_score * decay_factor, the factor is 1 at or after the      *)
(* reference time and otherwise below 1 and smaller for older documents,   *)
(* and of two candidates with equal cosine similarity the older one ranks  *)
(* after the newer one.                                                    *)
(***************************************************************************)
C12_OlderRanksAfterAsStated ==
    [][DecayingSearchStep =>
        LET results == ret'.results
            ref == ReferenceTimeOf(ret'.req, now)
            candidates == MemTemporalCandidates(ms, ret'.req, ret'.queryEmbedding, now)
        IN  /\ DecayReported(results, ref)
            /\ \A i \in DOMAIN results : \A c \in candidates :
                  (/\ c.BaseScore = results[i].BaseScore
                   /\ results[i].DocumentTime < c.DocumentTime)
                      => \E j \in 1..(i - 1) : results[j] = c]_vars

(***************************************************************************)
(* C12, amended: the same, with the ranking of the older candidate after   *)
(* the newer one claimed for candidates of equal and positive cosine       *)
(* similarity of which the older one lies before the reference time.       *)
(***************************************************************************)
C12_DecayedScores ==
    [][DecayingSearchStep =>
        LET results == ret'.results
            ref == ReferenceTimeOf(ret'.req, now)
            candidates == MemTemporalCandidates(ms, ret'.req, ret'.queryEmbedding, now)
        IN  /\ DecayReported(results, ref)
            /\ \A i \in DOMAIN results : \A c \in candidates :
                  (/\ c.BaseScore = results[i].BaseScore
                   /\ RatGreater(c.BaseScore, Zero)
                   /\ results[i].DocumentTime < c.DocumentTime
                   /\ results[i].DocumentTime < ref)
                      => \E j \in 1..(i - 1) : results[j] = c]_vars

\* Two records of cosine 1, half a decay unit and one decay unit old under
\* strong decay, are returned newer first with factors exp(-0.5), exp(-1).
C12_Witness ==
    /\ ret.op = "TemporalSearch"
    /\ ret.req.TemporalDecay = "strong"
    /\ Len(ret.results) = 2
    /\ ret.results[1].BaseScore = One /\ ret.results[2].BaseScore = One
    /\ ret.results[1].DocumentTime > ret.results[2].DocumentTime
    /\ ret.results[1].DecayFactor = Rat(6065, 10000)
    /\ ret.results[2].DecayFactor = Rat(3679, 10000)
    /\ ret.results[1].Score = Rat(6065, 10000)

\* The memory store and the persistent store without the records whose
\* embedding has another length than n.
OfLength(s, n) ==
    [vectors |-> [id \in {i \in DOMAIN s.vectors : Len(s.vectors[i].Embedding) = n}
                    |-> s.vectors[id]]]

LocalOfLength(l, n) ==
    [l EXCEPT !.Documents =
        [id \in {i \in DOMAIN l.Documents :
                    Len(AdapterLoadAll(l).Documents[i].Embedding.Vector) = n}
            |-> l.Documents[id]]]

Answers(outcomes) == {o.results : o \in outcomes}

(***************************************************************************)
(* C13: no search variant returns a record whose embedding length differs  *)
(* from the query embedding's length, and the answers the variant can give *)
(* (records, scores and order) are those it gives on the store without the *)
(* records of another length; the variants have no error outcome.          *)
(***************************************************************************)
C13_OtherLengthsIgnored ==
    IsTwinQuery =>
        LET n == Len(QueryEmbedding)
            m == OfLength(ms, n)
            l == LocalOfLength(ls, n)
        IN  /\ \A i \in DOMAIN ret.memory : Len(ret.memory[i].Vector.Embedding) = n
            /\ \A i \in DOMAIN ret.local : Len(ret.local[i].Vector.Embedding) = n
            /\ ret.op = "Search" =>
                  /\ MemSearch(ms, ret.req) = MemSearch(m, ret.req)
                  /\ Answers(AdapterSearch(ls, ret.req)) = Answers(AdapterSearch(l, ret.req))
            /\ ret.op = "AdvancedSearch" =>
                  /\ MemAdvancedSearch(ms, ret.req, QueryEmbedding)
                        = MemAdvancedSearch(m, ret.req, QueryEmbedding)
                  /\ Answers(AdapterAdvancedSearch(ls, ret.req, QueryEmbedding))
                        = Answers(AdapterAdvancedSearch(l, ret.req, QueryEmbedding))
            /\ ret.op = "TemporalSearch" =>
                  /\ MemTemporalSearch(ms, ret.req, QueryEmbedding, now)
                        = MemTemporalSearch(m, ret.req, QueryEmbedding, now)
                  /\ Answers(AdapterTemporalSearch(ls, ret.req, QueryEmbedding))
                        = Answers(AdapterTemporalSearch(l, ret.req, QueryEmbedding))

\* Both stores hold a record of length 3 and a record of length 2, and a
\* search with a query of length 2 returns the one of length 2 on both.
C13_Witness ==
    /\ IsTwinQuery /\ ret.op = "Search"
    /\ Len(QueryEmbedding) = 2
    /\ \E i, j \in DOMAIN ms.vectors :
          Len(ms.vectors[i].Embedding) = 3 /\ Len(ms.vectors[j].Embedding) = 2
    /\ DOMAIN ls.Documents = DOMAIN ms.vectors
    /\ Len(ret.memory) = 1 /\ Len(ret.local) = 1

(***************************************************************************)
(* C14: in every reachable state of the memory store and of the persistent *)
(* store, every stored record has created_at <= updated_at, whatever       *)
(* timestamps the callers of Store supplied.                               *)
(***************************************************************************)
C14_CreatedBeforeUpdated ==
    /\ \A id \in DOMAIN ms.vectors :
          ms.vectors[id].CreatedAt <= ms.vectors[id].UpdatedAt
    /\ \A id \in DOMAIN ls.Documents :
          ls.Documents[id].CreatedAt <= ls.Documents[id].UpdatedAt

(***************************************************************************)
(* C15: for every query variant of the storage contract, when k is absent  *)
(* or non-positive the result is cut to the default of 10: at most 10      *)
(* results are returned.                                                   *)
(***************************************************************************)
C15_DefaultTopK ==
    (IsQuery /\ ret.req.TopK <= 0) => Len(ret.results) <= DefaultTopK

(***************************************************************************)
(* C16: in the persistent store a document's version is 1 after the first  *)
(* store of its id and strictly greater after every further store of the   *)
(* same id, also for stores made through the storage-contract adapter.     *)
(***************************************************************************)
C16_VersionIncreases ==
    [][(backend = "local" /\ now' = now /\ ret'.op = "Store" /\ ret'.err = "nil") =>
          /\ ret'.id \in DOMAIN ls'.Documents
          /\ IF ret'.id \in DOMAIN ls.Documents
             THEN ls'.Documents[ret'.id].Version > ls.Documents[ret'.id].Version
             ELSE ls'.Documents[ret'.id].Version = 1]_vars

(***************************************************************************)
(* C17: if StoreDocument fails while writing the document file or the      *)
(* embedding file, it returns an error and the collection's in-memory      *)
(* document map and stats and the persisted schema are the same as before  *)
(* the call.                                                               *)
(***************************************************************************)
C17_FailedStoreLeavesSchema ==
    [][(/\ ret'.op = "StoreDocument"
        /\ ret'.fault \in {"document", "embedding"}
        /\ ret'.err # "nil") =>
          /\ ls'.Documents = ls.Documents
          /\ ls'.DocumentCount = ls.DocumentCount
          /\ ls'.schemaFile = ls.schemaFile]_vars

(***************************************************************************)
(* C18: after any sequence of StoreDocument and DeleteDocument calls       *)
(* followed by Close and a re-open of the same base path, every document   *)
(* present before the close is retrievable by id with the same metadata,   *)
(* embedding and version, and QueryByMetadata with an empty filter returns *)
(* exactly those documents.                                                *)
(***************************************************************************)
C18_ReopenKeepsDocuments ==
    [][ret'.op = "Reopen" =>
          /\ \A id \in DOMAIN ls.Documents :
                LET before == GetDocument(ls, id)
                    after == GetDocument(ls', id)
                IN  /\ after.err = "nil"
                    /\ after.doc.Metadata = before.doc.Metadata
                    /\ after.doc.Embedding.Vector = before.doc.Embedding.Vector
                    /\ after.doc.Version = before.doc.Version
          /\ {doc.ID : doc \in QueryByMetadata(ls', EmptyMap)} = DOMAIN ls.Documents]_vars

\* The store was re-opened and holds two documents, one at version 2 and one
\* whose embedding lies in its side file and loads as [1, 0].
C18_Witness ==
    /\ ret.op = "Reopen"
    /\ Cardinality(DOMAIN ls.Documents) = 2
    /\ \E id \in DOMAIN ls.Documents : ls.Documents[id].Version = 2
    /\ \E id \in DOMAIN ls.Documents :
          /\ ls.Documents[id].Embedding.Path # NoPath
          /\ ls.Documents[id].Embedding.Vector = NilEmbedding
          /\ GetDocument(ls, id).doc.Embedding.Vector = <<1, 0>>

\* The documents of a collection by id and metadata.
ByIdAndMetadata(collection) ==
    {[ID |-> collection.Documents[id].ID, Metadata |-> collection.Documents[id].Metadata] :
        id \in DOMAIN collection.Documents}

(***************************************************************************)
(* C19: exporting a collection and importing the exported file under a new *)
(* name yields a collection whose set of documents equals the original's   *)
(* by id and metadata: the exported file holds the documents of the        *)
(* collection, and the imported collection holds those of the file.        *)
(***************************************************************************)
C19_ExportImport ==
    [][/\ (ret'.op = "Export" /\ ret'.err = "nil") =>
             ByIdAndMetadata(ls'.files[ExportPath])
                 = ByIdAndMetadata(Collections(ls)[BoundCollection])
       /\ (ret'.op = "Import" /\ ret'.err = "nil") =>
             /\ ImportedCollection \in DOMAIN Collections(ls')
             /\ ByIdAndMetadata(Collections(ls')[ImportedCollection])
                   = ByIdAndMetadata(ls.files[ExportPath])]_vars

\* The file was exported from the bound collection as it is now, with two
\* documents of which one carries metadata, and has been imported under the
\* new name.
C19_Witness ==
    /\ ret.op = "Import" /\ ret.err = "nil"
    /\ ImportedCollection \in DOMAIN ls.Others
    /\ Cardinality(DOMAIN ls.Documents) = 2
    /\ \E id \in DOMAIN ls.Documents : DOMAIN ls.Documents[id].Metadata # {}
    /\ ByIdAndMetadata(ls.Others[ImportedCollection]) = ByIdAndMetadata(Collections(ls)[BoundCollection])

(***************************************************************************)
(* C20: on either backend, Delete of an id that is not in the store        *)
(* returns not_found and leaves the store's records and count unchanged.   *)
(***************************************************************************)
C20_DeleteOfAbsentId ==
    [][(/\ now' = now
        /\ ret'.op = "Delete"
        /\ ret'.id \notin (IF backend = "memory" THEN DOMAIN ms.vectors
                           ELSE DOMAIN ls.Documents)) =>
          /\ ret'.err = "not_found"
          /\ ms'.vectors = ms.vectors
          /\ ls'.Documents = ls.Documents
          /\ ls'.DocumentCount = ls.DocumentCount]_vars

(***************************************************************************)
(* C21: a run that ends at end-of-stream over a source whose records all   *)
(* embed and store, except s with empty text and e that fail embedding,     *)
(* reports total = n, skipped = s, failure = e with failure_reasons =       *)
(* {embed_error: e}, and success = n - s - e, for every batch_size >= 1.    *)
(***************************************************************************)
Completed == ing.pc = "returned" /\ ing.out.err = "nil"

Reason(stats, reason) ==
    IF reason \in DOMAIN stats.FailureReasons THEN stats.FailureReasons[reason] ELSE 0

Yielded(classes) ==
    LET RECURSIVE Sum(_)
        Sum(cs) == IF cs = {} THEN 0
                   ELSE LET c == CHOOSE x \in cs : TRUE
                        IN  ing.yielded[c] + Sum(cs \ {c})
    IN  Sum(classes)

C21_CountsByKind ==
    (/\ Completed
     /\ ing.config.BatchSize >= 1
     /\ Yielded({"read_error", "unsupported"}) = 0
     /\ ing.faulted = 0)
    => /\ ing.out.stats.TotalRecords = Yielded(Classes)
       /\ ing.out.stats.SkippedCount = ing.yielded["empty"]
       /\ ing.out.stats.FailureCount = ing.yielded["unembeddable"]
       /\ DOMAIN ing.out.stats.FailureReasons \subseteq {"embed_error"}
       /\ Reason(ing.out.stats, "embed_error") = ing.yielded["unembeddable"]
       /\ ing.out.stats.SuccessCount =
              Yielded(Classes) - ing.yielded["empty"] - ing.yielded["unembeddable"]

C21_Witness ==
    /\ Completed
    /\ ing.config.BatchSize = MaxBatch
    /\ ~ing.config.DryRun
    /\ ing.yielded = [c \in Classes |-> IF c \in {"empty", "unembeddable", "good"}
                                          THEN 1 ELSE 0]
    /\ ing.faulted = 0
    /\ ing.out.stats.SuccessCount = 1
    /\ ing.out.stats.FailureReasons = [r \in {"embed_error"} |-> 1]


(***************************************************************************)
(* C22: in a dry run no step of Run changes the store, and when the run    *)
(* returns every vector that was appended to a batch has been counted as a *)
(* success.                                                                *)
(***************************************************************************)
C22_DryRunCountsBatched ==
    [][(Running /\ ing.config.DryRun)
       => /\ ms' = ms
          /\ ls' = ls
          /\ ing'.pc = "returned" => ing'.out.stats.SuccessCount = ing'.appended]_vars

(***************************************************************************)
(* C23: Run tests the deadline before each source.Next.  A test that finds *)
(* the deadline fired ends the run with the accumulated statistics, never  *)
(* nil, and the cancellation error; a deadline that fires after the test   *)
(* lets one more Next through, and if that Next finds the end of the       *)
(* stream the run completes without the cancellation error.                *)
(***************************************************************************)
Cancelled == ing.pc = "returned" /\ ing.out.err = "cancelled"

C23_DeadlineChecked ==
    ing.pc # "idle"
    => /\ ing.late <= 1
       /\ ing.pc = "next" => ing.late = 0
       /\ Cancelled => /\ ing.done
                       /\ ing.out.stats # NilStats
                       /\ ing.out.stats = ing.stats
       /\ (ing.pc = "returned" /\ ing.done /\ ~Cancelled)
              => Completed /\ ing.late = 1

C23_Witness ==
    /\ Cancelled
    /\ ing.late = 1
    /\ ing.reads = MaxRecords
    /\ ing.out.stats.TotalRecords = MaxRecords

\* As stated: once the deadline has fired no record is pulled, and the run
\* returns with the cancellation signal.
C23_NoReadAfterDeadline ==
    ing.pc # "idle"
    => /\ ing.late = 0
       /\ (ing.pc = "returned" /\ ing.done) => Cancelled /\ ing.out.stats # NilStats

(***************************************************************************)
(* C26: when Run returns, at end-of-stream or on the deadline, every       *)
(* vector appended to a batch has been handed to processBatch.             *)
(***************************************************************************)
C26_NothingLeftInBatch ==
    (ing.pc = "returned" /\ ing.out.stats # NilStats) => ing.flushed = ing.appended

(***************************************************************************)
(* C27: with batch_size >= 1 the batch never holds more than batch_size    *)
(* vectors; it holds batch_size only between the append and the flush that *)
(* follows it, and the flush leaves it empty.                              *)
(***************************************************************************)
C27_BatchBounded ==
    [][(Running /\ ing.config.BatchSize >= 1)
       => /\ Len(ing.batch) <= ing.config.BatchSize
          /\ ing.pc \in {"check", "next"} => Len(ing.batch) < ing.config.BatchSize
          /\ (ing.pc = "flush" /\ Len(ing.batch) = ing.config.BatchSize
                  /\ ing'.pc = "check")
                 => ing'.batch = << >> /\ ing'.flushed = ing.flushed + Len(ing.batch)]_vars

C27_Witness ==
    /\ ing.pc = "check"
    /\ ing.config.BatchSize = MaxBatch
    /\ ing.batch = << >>
    /\ ing.flushed = MaxBatch
    /\ ing.appended = MaxBatch

(***************************************************************************)
(* C28: when Run completes at end-of-stream, failure is the sum of the     *)
(* failure_reasons counts and total = success + skipped + (failure -       *)
(* failure_reasons[read_error]).                                           *)
(***************************************************************************)
ReasonsTotal(stats) ==
    LET RECURSIVE Sum(_)
        Sum(rs) == IF rs = {} THEN 0
                   ELSE LET r == CHOOSE x \in rs : TRUE
                        IN  stats.FailureReasons[r] + Sum(rs \ {r})
    IN  Sum(DOMAIN stats.FailureReasons)

C28_CountersBalance ==
    Completed
    => /\ ing.out.stats.FailureCount = ReasonsTotal(ing.out.stats)
       /\ ing.out.stats.TotalRecords =
              ing.out.stats.SuccessCount + ing.out.stats.SkippedCount
              + (ing.out.stats.FailureCount - Reason(ing.out.stats, "read_error"))

C28_Witness ==
    /\ Completed
    /\ ~ing.config.DryRun
    /\ ing.faulted = 1
    /\ Reason(ing.out.stats, "storage_error") = 1
    /\ Reason(ing.out.stats, "read_error") = 1
    /\ Reason(ing.out.stats, "embedder_not_multimodal") = 1
    /\ ing.out.stats.TotalRecords = 2


(***************************************************************************)
(* C24: whatever order the evaluator visits the filter in, Evaluate is     *)
(* true exactly when every operator of every field's expression holds on   *)
(* the field's value in the metadata; the empty filter matches.            *)
(***************************************************************************)
IsEvaluate == "op" \in DOMAIN ret /\ ret.op = "Evaluate"

HoldsOn(metadata, field, op, operand) ==
    evaluateOperator(IF field \in DOMAIN metadata THEN metadata[field] ELSE "",
                     field \in DOMAIN metadata, op, operand)

C24_ConjunctionOfOperators ==
    IsEvaluate
    => /\ ret.result <=> \A field \in DOMAIN ret.filters :
                            \A op \in DOMAIN ret.filters[field] :
                               HoldsOn(ret.metadata, field, op, ret.filters[field][op])
       /\ ret.filters = EmptyMap => ret.result

\* Two fields that both hold, one of them on a range of two operators of
\* which one compares numbers given as a string and a number.
C24_Witness ==
    /\ IsEvaluate
    /\ ret.metadata = [author |-> "einstein", year |-> "9"]
    /\ ret.filters = [author |-> [exists |-> BoolVal(TRUE)],
                      year |-> [gte |-> StrVal("9"), lte |-> NumVal(1925)]]
    /\ ret.fields = <<"year", "author">>
    /\ ret.result

(***************************************************************************)
(* C25: on an absent field eq, neq, lt, lte, gt, gte, between, contains    *)
(* and in are false; exists:true is true exactly on a present field and    *)
(* exists:false exactly on an absent one.                                  *)
(***************************************************************************)
IsExpression == "op" \in DOMAIN ret /\ ret.op = "evaluateExpression"

ValueOperators == {"eq", "neq", "lt", "lte", "gt", "gte", "between", "contains", "in"}

C25_MissingField ==
    IsExpression
    => /\ (~ret.exists /\ DOMAIN ret.expr \cap ValueOperators # {}) => ~ret.result
       /\ ret.expr = [exists |-> BoolVal(TRUE)] => (ret.result <=> ret.exists)
       /\ ret.expr = [exists |-> BoolVal(FALSE)] => (ret.result <=> ~ret.exists)

C25_Witness ==
    /\ IsExpression
    /\ ~ret.exists
    /\ ret.expr = [neq |-> StrVal("Einstein")]
    /\ ~ret.result


(***************************************************************************)
(* C29: on the bound store, in every state, Count() is the number of       *)
(* records List() returns and Get(id) succeeds for exactly the ids of the  *)
(* records List() returns.                                                 *)
(***************************************************************************)
Listed == IF backend = "memory" THEN MemList(ms) ELSE AdapterList(ls)

Counted == IF backend = "memory" THEN MemCount(ms) ELSE AdapterCount(ls)

Gettable(id) ==
    IF backend = "memory" THEN MemGet(ms, id).err = "nil" ELSE AdapterGet(ls, id).err = "nil"

C29_CountListGetAgree ==
    /\ Counted = Cardinality(Listed)
    /\ \A id \in Ids : Gettable(id) <=> \E vector \in Listed : vector.ID = id

(***************************************************************************)
(* C30: every record the adapter lists carries the embedding it was stored *)
(* with, and a memory store migrated to a fresh persistent store and back  *)
(* into an empty memory store has the same ids, metadata and embeddings.   *)
(***************************************************************************)
Payload(vectors) ==
    {[ID |-> v.ID, Metadata |-> v.Metadata, Embedding |-> v.Embedding] : v \in vectors}

C30_ListedEmbeddings ==
    /\ backend = "local"
          => \A vector \in AdapterList(ls) :
                Present(lastStored, vector.ID)
                   => vector.Embedding = lastStored[vector.ID].Embedding
    /\ backend = "memory"
          => Payload(MemList(MigrateLocalToMemory(
                         MigrateMemoryToLocal(ms, NewLocalStorage, now),
                         [vectors |-> EmptyMap], now)))
             = Payload(MemList(ms))

====
